---- MODULE Spec2Model ----
(***************************************************************************)
(* Model of the serverless contact form: the Lambda handler `send`         *)
(* (src/src/handler.ts 1-272), the security helpers that ship in the same  *)
(* file (274-372), the error classes (src/src/errors.ts 1-30) and the      *)
(* Zod schema (src/src/validation.ts).                                     *)
(*                                                                         *)
(* Texts that come from the visitor (name, content, origin, ...) are       *)
(* sequences of one-character strings so that trimming, escaping and       *)
(* pattern matching are computed character by character.  Fixed messages   *)
(* of the program are TLA+ strings.                                        *)
(***************************************************************************)
EXTENDS Integers, Sequences, FiniteSets, TLC

----------------------------------------------------------------------------
(* Characters and texts                                                    *)

LowerAlpha ==
  <<"a", "b", "c", "d", "e", "f", "g", "h", "i", "j", "k", "l", "m",
    "n", "o", "p", "q", "r", "s", "t", "u", "v", "w", "x", "y", "z">>

UpperAlpha ==
  <<"A", "B", "C", "D", "E", "F", "G", "H", "I", "J", "K", "L", "M",
    "N", "O", "P", "Q", "R", "S", "T", "U", "V", "W", "X", "Y", "Z">>

DigitChars ==
  {"0", "1", "2", "3", "4", "5", "6", "7", "8", "9"}

Range(f) ==
  {f[i] : i \in DOMAIN f}

\* \s of the regular expressions and the characters String.prototype.trim removes
WhiteSpace ==
  {" ", "\t", "\n", "\r"}

Letters ==
  Range(LowerAlpha) \cup Range(UpperAlpha)

WordChars ==
  Letters \cup DigitChars \cup {"_"}

\* [a-zA-Z]
IsLetter(c) ==
  c \in Letters

\* \w of the regular expressions
IsWordChar(c) ==
  c \in WordChars

LowerOf ==
  [c \in Range(UpperAlpha) |-> LowerAlpha[CHOOSE i \in 1..26 : UpperAlpha[i] = c]]

\* the case folding of the /i flag
ToLower(c) ==
  IF c \in DOMAIN LowerOf THEN LowerOf[c] ELSE c

LowerText(t) ==
  [i \in 1..Len(t) |-> ToLower(t[i])]

\* pattern p occurs in t at position i
HasAt(t, p, i) ==
  /\ i >= 1
  /\ i + Len(p) - 1 <= Len(t)
  /\ \A k \in 1..Len(p) : t[i + k - 1] = p[k]

Contains(t, p) ==
  \E i \in 1..(Len(t) + 1) : HasAt(t, p, i)

\* String.prototype.startsWith / endsWith
StartsWith(t, p) ==
  HasAt(t, p, 1)

EndsWith(t, p) ==
  HasAt(t, p, Len(t) - Len(p) + 1)

\* String.prototype.trim: the white space at the start and at the end is
\* removed
RECURSIVE TrimStart(_)
TrimStart(t) ==
  IF t # <<>> /\ Head(t) \in WhiteSpace THEN TrimStart(Tail(t)) ELSE t

RECURSIVE TrimEnd(_)
TrimEnd(t) ==
  IF t # <<>> /\ t[Len(t)] \in WhiteSpace
  THEN TrimEnd(SubSeq(t, 1, Len(t) - 1))
  ELSE t

Trim(t) ==
  TrimEnd(TrimStart(t))

----------------------------------------------------------------------------
(* security helpers, src/src/handler.ts 274-372                            *)

\* Map.set on the table: a function whose domain is the set of known identities
MapSet(m, k, v) ==
  [x \in DOMAIN m \cup {k} |-> IF x = k THEN v ELSE m[x]]

\* checkRateLimit that turns away a request without a client address
checkRateLimit_DeniesUnknown(counts, clientIP, t, config) ==
  IF clientIP = "unknown"
  THEN [allowed |-> FALSE, counts |-> counts]
  ELSE IF clientIP \notin DOMAIN counts
            \/ t - counts[clientIP].windowStart > config.windowMs
       THEN [allowed |-> TRUE,
             counts  |-> MapSet(counts, clientIP, [count |-> 1, windowStart |-> t])]
       ELSE IF counts[clientIP].count >= config.maxRequests
            THEN [allowed |-> FALSE, counts |-> counts]
            ELSE [allowed |-> TRUE,
                  counts  |-> [counts EXCEPT ![clientIP].count = @ + 1]]

\* checkRateLimit with `existing.count++` ahead of the comparison: a call
\* that is turned away is counted too
checkRateLimit_CountsDenied(counts, clientIP, t, config) ==
  IF clientIP \notin DOMAIN counts
       \/ t - counts[clientIP].windowStart > config.windowMs
  THEN [allowed |-> TRUE,
        counts  |-> MapSet(counts, clientIP, [count |-> 1, windowStart |-> t])]
  ELSE IF counts[clientIP].count >= config.maxRequests
       THEN [allowed |-> FALSE,
             counts  |-> [counts EXCEPT ![clientIP].count = @ + 1]]
       ELSE [allowed |-> TRUE,
             counts  |-> [counts EXCEPT ![clientIP].count = @ + 1]]

\* checkRateLimit with `existing.count > config.maxRequests`: one request
\* too many passes
checkRateLimit_OffByOne(counts, clientIP, t, config) ==
  IF clientIP \notin DOMAIN counts
       \/ t - counts[clientIP].windowStart > config.windowMs
  THEN [allowed |-> TRUE,
        counts  |-> MapSet(counts, clientIP, [count |-> 1, windowStart |-> t])]
  ELSE IF counts[clientIP].count > config.maxRequests
       THEN [allowed |-> FALSE, counts |-> counts]
       ELSE [allowed |-> TRUE,
             counts  |-> [counts EXCEPT ![clientIP].count = @ + 1]]

\* checkRateLimit that increments a copy of the entry: the table keeps the
\* count it had
checkRateLimit_LostIncrement(counts, clientIP, t, config) ==
  IF clientIP \notin DOMAIN counts
       \/ t - counts[clientIP].windowStart > config.windowMs
  THEN [allowed |-> TRUE,
        counts  |-> MapSet(counts, clientIP, [count |-> 1, windowStart |-> t])]
  ELSE IF counts[clientIP].count >= config.maxRequests
       THEN [allowed |-> FALSE, counts |-> counts]
       ELSE [allowed |-> TRUE, counts |-> counts]

\* checkRateLimit with `now - existing.windowStart >= config.windowMs`: the
\* window is reset already when exactly windowMs has elapsed
checkRateLimit_ResetAtBoundary(counts, clientIP, t, config) ==
  IF clientIP \notin DOMAIN counts
       \/ t - counts[clientIP].windowStart >= config.windowMs
  THEN [allowed |-> TRUE,
        counts  |-> MapSet(counts, clientIP, [count |-> 1, windowStart |-> t])]
  ELSE IF counts[clientIP].count >= config.maxRequests
       THEN [allowed |-> FALSE, counts |-> counts]
       ELSE [allowed |-> TRUE,
             counts  |-> [counts EXCEPT ![clientIP].count = @ + 1]]

\* checkRateLimit, without the extraction of the identity: the result and
\* the table after the call made at time t
checkRateLimit(counts, clientIP, t, config) ==
  IF clientIP \notin DOMAIN counts
       \/ t - counts[clientIP].windowStart > config.windowMs
  THEN [allowed |-> TRUE,
        counts  |-> MapSet(counts, clientIP, [count |-> 1, windowStart |-> t])]
  ELSE IF counts[clientIP].count >= config.maxRequests
       THEN [allowed |-> FALSE, counts |-> counts]
       ELSE [allowed |-> TRUE,
             counts  |-> [counts EXCEPT ![clientIP].count = @ + 1]]

\* cleanupRateLimit with `now - data.windowStart > windowMs`: an entry goes
\* after one window duration
cleanupRateLimit_OneWindow(counts, t, windowMs) ==
  [ip \in {k \in DOMAIN counts : ~(t - counts[k].windowStart > windowMs)}
     |-> counts[ip]]

\* cleanupRateLimit with `now - data.windowStart > windowMs / 2`: an entry
\* goes while its window is still running
cleanupRateLimit_HalfWindow(counts, t, windowMs) ==
  [ip \in {k \in DOMAIN counts : ~(t - counts[k].windowStart > windowMs \div 2)}
     |-> counts[ip]]

\* cleanupRateLimit: the table after the sweep made at time t
cleanupRateLimit(counts, t, windowMs) ==
  [ip \in {k \in DOMAIN counts : ~(t - counts[k].windowStart > windowMs * 2)}
     |-> counts[ip]]

\* entity map without the entry for the apostrophe
entityMap_NoApostrophe(c) ==
  CASE c = "<"  -> <<"&", "l", "t", ";">>
    [] c = ">"  -> <<"&", "g", "t", ";">>
    [] c = "&"  -> <<"&", "a", "m", "p", ";">>
    [] c = "\"" -> <<"&", "q", "u", "o", "t", ";">>
    [] OTHER    -> <<c>>

\* entity map that escapes the slash as well, to &#x2F;
entityMap_EscapesSlash(c) ==
  CASE c = "<"  -> <<"&", "l", "t", ";">>
    [] c = ">"  -> <<"&", "g", "t", ";">>
    [] c = "&"  -> <<"&", "a", "m", "p", ";">>
    [] c = "\"" -> <<"&", "q", "u", "o", "t", ";">>
    [] c = "'"  -> <<"&", "#", "3", "9", ";">>
    [] c = "/"  -> <<"&", "#", "x", "2", "F", ";">>
    [] OTHER    -> <<c>>

\* the entity map of sanitizeInput
entityMap(c) ==
  CASE c = "<"  -> <<"&", "l", "t", ";">>
    [] c = ">"  -> <<"&", "g", "t", ";">>
    [] c = "&"  -> <<"&", "a", "m", "p", ";">>
    [] c = "\"" -> <<"&", "q", "u", "o", "t", ";">>
    [] c = "'"  -> <<"&", "#", "3", "9", ";">>
    [] OTHER    -> <<c>>

RECURSIVE ReplaceEntities(_)
ReplaceEntities(t) ==
  IF t = <<>> THEN <<>>
  ELSE entityMap(Head(t)) \o ReplaceEntities(Tail(t))

sanitizeInput(input) ==
  Trim(ReplaceEntities(input))

\* validateOrigin without the `!origin` test: a request without an origin
\* is compared with the allowed domain
validateOrigin_AbsentCompared(hasOrigin, origin, allowedDomain) ==
  IF allowedDomain = <<"*">>
  THEN TRUE
  ELSE IF StartsWith(allowedDomain, <<"*", ".">>)
       THEN LET domain == SubSeq(allowedDomain, 3, Len(allowedDomain))
            IN  hasOrigin /\ (EndsWith(origin, domain) \/ origin = domain)
       ELSE hasOrigin /\ origin = allowedDomain

\* validateOrigin; hasOrigin is FALSE for an undefined origin
validateOrigin(hasOrigin, origin, allowedDomain) ==
  IF ~hasOrigin \/ origin = <<>> \/ allowedDomain = <<"*">>
  THEN TRUE
  ELSE IF StartsWith(allowedDomain, <<"*", ".">>)
       THEN LET domain == SubSeq(allowedDomain, 3, Len(allowedDomain))
            IN  EndsWith(origin, domain) \/ origin = domain
       ELSE origin = allowedDomain

\* /<tag[\s\S]*?>[\s\S]*?<\/tag>/i
MatchesElement(t, tag) ==
  LET low   == LowerText(t)
      open  == <<"<">> \o tag
      close == <<"<", "/">> \o tag \o <<">">>
  IN  \E i \in 1..Len(t) :
        /\ HasAt(low, open, i)
        /\ \E j \in (i + Len(open))..Len(t) :
             /\ low[j] = ">"
             /\ \E k \in (j + 1)..Len(t) : HasAt(low, close, k)

\* /on\w+\s*=/i
MatchesEventHandler(t) ==
  LET low == LowerText(t)
  IN  \E i \in 1..Len(t) :
        /\ HasAt(low, <<"o", "n">>, i)
        /\ \E j \in (i + 2)..Len(t) :
             /\ \A w \in (i + 2)..j : IsWordChar(t[w])
             /\ \E k \in (j + 1)..Len(t) :
                  /\ \A s \in (j + 1)..(k - 1) : t[s] \in WhiteSpace
                  /\ t[k] = "="

\* detectSuspiciousActivity whose patterns lack the i flag
detectSuspiciousActivity_CaseSensitive(content) ==
  LET MatchesTag(tag) ==
        \E i \in 1..Len(content) :
          /\ HasAt(content, <<"<">> \o tag, i)
          /\ \E j \in (i + 1 + Len(tag))..Len(content) :
               /\ content[j] = ">"
               /\ \E k \in (j + 1)..Len(content) :
                    HasAt(content, <<"<", "/">> \o tag \o <<">">>, k)
  IN
  \/ MatchesTag(<<"s", "c", "r", "i", "p", "t">>)
  \/ Contains(content, <<"j", "a", "v", "a", "s", "c", "r", "i", "p", "t", ":">>)
  \/ \E i \in 1..Len(content) :
        /\ HasAt(content, <<"o", "n">>, i)
        /\ \E j \in (i + 2)..Len(content) :
             /\ \A w \in (i + 2)..j : IsWordChar(content[w])
             /\ \E k \in (j + 1)..Len(content) :
                  /\ \A x \in (j + 1)..(k - 1) : content[x] \in WhiteSpace
                  /\ content[k] = "="
  \/ Contains(content,
              <<"d", "a", "t", "a", ":", "t", "e", "x", "t", "/", "h", "t", "m", "l">>)
  \/ Contains(content, <<"v", "b", "s", "c", "r", "i", "p", "t", ":">>)
  \/ MatchesTag(<<"i", "f", "r", "a", "m", "e">>)
  \/ MatchesTag(<<"o", "b", "j", "e", "c", "t">>)
  \/ MatchesTag(<<"e", "m", "b", "e", "d">>)

detectSuspiciousActivity(content) ==
  \/ MatchesElement(content, <<"s", "c", "r", "i", "p", "t">>)
  \/ Contains(LowerText(content),
              <<"j", "a", "v", "a", "s", "c", "r", "i", "p", "t", ":">>)
  \/ MatchesEventHandler(content)
  \/ Contains(LowerText(content),
              <<"d", "a", "t", "a", ":", "t", "e", "x", "t", "/", "h", "t", "m", "l">>)
  \/ Contains(LowerText(content),
              <<"v", "b", "s", "c", "r", "i", "p", "t", ":">>)
  \/ MatchesElement(content, <<"i", "f", "r", "a", "m", "e">>)
  \/ MatchesElement(content, <<"o", "b", "j", "e", "c", "t">>)
  \/ MatchesElement(content, <<"e", "m", "b", "e", "d">>)

----------------------------------------------------------------------------
(* error classes, src/src/errors.ts 1-30                                   *)

\* new ContactFormError(message, statusCode = 500)
ContactFormError(message, statusCode) ==
  [class |-> "ContactFormError", message |-> message, statusCode |-> statusCode]

\* ValidationError that calls super(message) and so keeps the default status
ValidationError_DefaultStatus(message) ==
  [class |-> "ValidationError", message |-> message, statusCode |-> 500]

\* new ValidationError(message): super(message, 400)
ValidationError(message) ==
  [ContactFormError(message, 400) EXCEPT !.class = "ValidationError"]

\* new EmailServiceError(message): super(message, 500)
EmailServiceError(message) ==
  [ContactFormError(message, 500) EXCEPT !.class = "EmailServiceError"]

\* a built-in Error that is none of the classes above
PlainError(message) ==
  [class |-> "Error", message |-> message, statusCode |-> 0]

\* a thrown value that is not an Error object at all
NonErrorValue ==
  [class |-> "NonError", message |-> "", statusCode |-> 0]

\* error instanceof ContactFormError
IsContactFormError(error) ==
  error.class \in {"ContactFormError", "ValidationError", "EmailServiceError"}

\* error instanceof Error
IsError(error) ==
  error.class # "NonError"

----------------------------------------------------------------------------
(* schema, src/src/validation.ts                                           *)
(* A JSON value is [type |-> "string", text |-> t], [type |-> "object",    *)
(* fields |-> f] with f a function from the keys present to JSON values,   *)
(* or [type |-> x] for the other JSON types.                               *)

JString(t) ==
  [type |-> "string", text |-> t]

JObject(f) ==
  [type |-> "object", fields |-> f]

\* Zod's message for a value of the wrong type
ExpectedString(v) ==
  "Expected string, received " \o v.type

\* z.string().email(): local part, "@", dotted domain ending in a
\* top-level label of at least two letters
IsEmail(t) ==
  LET ats == {i \in 1..Len(t) : t[i] = "@"}
  IN  /\ Cardinality(ats) = 1
      /\ LET at     == CHOOSE i \in ats : TRUE
             local  == SubSeq(t, 1, at - 1)
             domain == SubSeq(t, at + 1, Len(t))
             dots   == {i \in 1..Len(domain) : domain[i] = "."}
         IN  /\ Len(local) >= 1
             /\ \A i \in 1..Len(local) :
                  IsWordChar(local[i]) \/ local[i] \in {"'", "+", "-", "."}
             /\ local[1] # "."
             /\ ~Contains(local, <<".", ".">>)
             /\ local[Len(local)] \notin {"'", "."}
             /\ dots # {}
             /\ LET last == CHOOSE i \in dots : \A j \in dots : i >= j
                IN  /\ Len(domain) - last >= 2
                    /\ \A i \in (last + 1)..Len(domain) : IsLetter(domain[i])
                    /\ \A i \in 1..last :
                         \/ IsLetter(domain[i]) \/ domain[i] \in DigitChars
                         \/ /\ domain[i] \in {"-", "."}
                            /\ i > 1
                            /\ domain[i - 1] # "."

\* /^[a-zA-Z\s\-'\.]+$/
MatchesNamePattern(t) ==
  /\ Len(t) >= 1
  /\ \A i \in 1..Len(t) :
       IsLetter(t[i]) \/ t[i] \in WhiteSpace \/ t[i] \in {"-", "'", "."}

NameMin == 2
NameMax == 100
ContentMin == 10
ContentMax == 5000
SubjectMax == 200

\* the issues of one key of the schema, in the order of its checks
EmailIssues(f) ==
  IF "email" \notin DOMAIN f THEN <<"Email is required">>
  ELSE IF f["email"].type # "string" THEN <<ExpectedString(f["email"])>>
  ELSE IF ~IsEmail(Trim(f["email"].text))
       THEN <<"Please provide a valid email address">>
       ELSE <<>>

NameIssues(f) ==
  IF "name" \notin DOMAIN f THEN <<"Name is required">>
  ELSE IF f["name"].type # "string" THEN <<ExpectedString(f["name"])>>
  ELSE LET t == Trim(f["name"].text)
       IN  (IF Len(t) < NameMin
            THEN <<"Name must be at least 2 characters long">> ELSE <<>>)
           \o (IF Len(t) > NameMax
               THEN <<"Name cannot exceed 100 characters">> ELSE <<>>)
           \o (IF ~MatchesNamePattern(t)
               THEN <<"Name can only contain letters, spaces, hyphens, apostrophes, and periods">>
               ELSE <<>>)

\* content declared without .trim(): the lengths are those of the raw text
ContentIssues_Untrimmed(f) ==
  IF "content" \notin DOMAIN f THEN <<"Message content is required">>
  ELSE IF f["content"].type # "string" THEN <<ExpectedString(f["content"])>>
  ELSE LET t == f["content"].text
       IN  (IF Len(t) < ContentMin
            THEN <<"Message must be at least 10 characters long">> ELSE <<>>)
           \o (IF Len(t) > ContentMax
               THEN <<"Message cannot exceed 5000 characters">> ELSE <<>>)

ContentIssues(f) ==
  IF "content" \notin DOMAIN f THEN <<"Message content is required">>
  ELSE IF f["content"].type # "string" THEN <<ExpectedString(f["content"])>>
  ELSE LET t == Trim(f["content"].text)
       IN  (IF Len(t) < ContentMin
            THEN <<"Message must be at least 10 characters long">> ELSE <<>>)
           \o (IF Len(t) > ContentMax
               THEN <<"Message cannot exceed 5000 characters">> ELSE <<>>)

\* subject declared as z.string().trim().min(1).max(200).optional()
SubjectIssues_RejectsEmpty(f) ==
  IF "subject" \notin DOMAIN f THEN <<>>
  ELSE IF f["subject"].type # "string" THEN <<ExpectedString(f["subject"])>>
  ELSE IF Len(Trim(f["subject"].text)) < 1
       THEN <<"String must contain at least 1 character(s)">>
       ELSE IF Len(Trim(f["subject"].text)) > SubjectMax
            THEN <<"Subject cannot exceed 200 characters">>
            ELSE <<>>

SubjectIssues(f) ==
  IF "subject" \notin DOMAIN f THEN <<>>
  ELSE IF f["subject"].type # "string" THEN <<ExpectedString(f["subject"])>>
  ELSE IF Len(Trim(f["subject"].text)) > SubjectMax
       THEN <<"Subject cannot exceed 200 characters">>
       ELSE <<>>

\* error.errors.map(err => err.message).join(', ')
RECURSIVE JoinMessages(_)
JoinMessages(msgs) ==
  IF msgs = <<>> THEN ""
  ELSE IF Len(msgs) = 1 THEN msgs[1]
  ELSE msgs[1] \o ", " \o JoinMessages(Tail(msgs))

\* schema whose keys are declared in the order name, email, content, subject
SchemaIssues_NameFirst(data) ==
  IF data.type # "object" THEN <<"Expected object, received " \o data.type>>
  ELSE NameIssues(data.fields) \o EmailIssues(data.fields)
         \o ContentIssues(data.fields) \o SubjectIssues(data.fields)

\* contactFormSchema.parse: the issues in the order of the keys of the schema
SchemaIssues(data) ==
  IF data.type # "object" THEN <<"Expected object, received " \o data.type>>
  ELSE EmailIssues(data.fields) \o NameIssues(data.fields)
         \o ContentIssues(data.fields) \o SubjectIssues(data.fields)

\* schema whose subject is declared with .default('New Contact Form Submission')
SchemaOutput_DefaultSubject(data) ==
  [k \in (DOMAIN data.fields \cap {"email", "name", "content", "subject"})
            \cup {"subject"}
     |-> IF k \in DOMAIN data.fields
         THEN Trim(data.fields[k].text)
         ELSE <<"N", "e", "w", " ", "C", "o", "n", "t", "a", "c", "t", " ", "F", "o", "r", "m",
                " ", "S", "u", "b", "m", "i", "s", "s", "i", "o", "n">>]

\* the parsed record: the schema's keys that are present, trimmed
SchemaOutput(data) ==
  [k \in DOMAIN data.fields \cap {"email", "name", "content", "subject"}
     |-> Trim(data.fields[k].text)]

\* validateContactForm that reports error.errors[0].message only
validateContactForm_FirstIssueOnly(data) ==
  IF SchemaIssues(data) = <<>>
  THEN [success |-> TRUE, data |-> SchemaOutput(data), error |-> ""]
  ELSE [success |-> FALSE, data |-> <<>>,
        error |-> SchemaIssues(data)[1]]

validateContactForm(data) ==
  IF SchemaIssues(data) = <<>>
  THEN [success |-> TRUE, data |-> SchemaOutput(data), error |-> ""]
  ELSE [success |-> FALSE, data |-> <<>>,
        error |-> JoinMessages(SchemaIssues(data))]

----------------------------------------------------------------------------
(* handler, src/src/handler.ts 1-272                                       *)

Star ==
  <<"*">>

DefaultRegion ==
  <<"u", "s", "-", "e", "a", "s", "t", "-", "1">>

DefaultSubject ==
  <<"N", "e", "w", " ", "C", "o", "n", "t", "a", "c", "t", " ", "F", "o", "r", "m",
    " ", "S", "u", "b", "m", "i", "s", "s", "i", "o", "n">>

\* process.env[k] || fallback
EnvOr(environment, k, fallback) ==
  IF k \in DOMAIN environment /\ environment[k] # <<>>
  THEN environment[k] ELSE fallback

\* getEnvVars: EMAIL is <<>> when the variable is unset or empty (both falsy)
getEnvVars(environment) ==
  [EMAIL      |-> EnvOr(environment, "EMAIL", <<>>),
   Domain     |-> EnvOr(environment, "DOMAIN", Star),
   AWS_REGION |-> EnvOr(environment, "AWS_REGION", DefaultRegion)]

getCorsHeaders(domain) ==
  ("Access-Control-Allow-Origin" :> domain)
  @@ ("Access-Control-Allow-Headers" :>
        <<"Content-Type,X-Amz-Date,Authorization,X-Api-Key,X-Amz-Security-Token">>)
  @@ ("Access-Control-Allow-Methods" :> <<"POST,OPTIONS">>)
  @@ ("Access-Control-Allow-Credentials" :> <<"true">>)
  @@ ("Content-Type" :> <<"application/json">>)

\* generateResponse; the body is the payload that JSON.stringify serialises
generateResponse(statusCode, payload, domain) ==
  [statusCode |-> statusCode, headers |-> getCorsHeaders(domain), body |-> payload]

\* the ErrorResponse payload: details is left out when it is falsy ("")
ErrorPayload(error, details) ==
  IF details = ""
  THEN [success |-> FALSE, error |-> error]
  ELSE [success |-> FALSE, error |-> error, details |-> details]

\* generateErrorResponse that does not pass the domain on: generateResponse
\* falls back to its default '*'
generateErrorResponse_DefaultDomain(statusCode, error, domain, details) ==
  generateResponse(statusCode, ErrorPayload(error, details), <<"*">>)

generateErrorResponse(statusCode, error, domain, details) ==
  generateResponse(statusCode, ErrorPayload(error, details), domain)

\* the console.error line of generateErrorResponse
ErrorLog(statusCode, error, details) ==
  [level |-> "error", statusCode |-> statusCode, error |-> error, details |-> details]

\* console.error('Unexpected error:', error) and console.error('SES Error:', error)
ExceptionLog(label, error) ==
  [level |-> "error", statusCode |-> 0, error |-> label, details |-> error.message]

\* request.content.replace(/\n/g, '<br>')
RECURSIVE NewlinesToBr(_)
NewlinesToBr(t) ==
  IF t = <<>> THEN <<>>
  ELSE (IF Head(t) = "\n" THEN <<"<", "b", "r", ">">> ELSE <<Head(t)>>)
         \o NewlinesToBr(Tail(t))

\* request.subject || 'New Contact Form Submission'
MailSubject(request) ==
  IF "subject" \in DOMAIN request /\ request["subject"] # <<>>
  THEN request["subject"] ELSE DefaultSubject

\* createEmailParams: the thrown error, or the SendEmailCommandInput; the two
\* bodies are given by the values interpolated into their templates
createEmailParams(request, email) ==
  IF email = <<>>
  THEN [ok |-> FALSE,
        error |-> EmailServiceError("EMAIL environment variable is not configured"),
        params |-> <<>>]
  ELSE LET subject == MailSubject(request)
       IN  [ok |-> TRUE,
            error |-> NonErrorValue,
            params |->
              [Source           |-> email,
               ToAddresses      |-> <<email>>,
               ReplyToAddresses |-> <<request["email"]>>,
               Subject          |-> subject,
               Text |-> [name |-> request["name"], email |-> request["email"],
                         subject |-> subject, content |-> request["content"]],
               Html |-> [name |-> request["name"], email |-> request["email"],
                         subject |-> subject,
                         content |-> NewlinesToBr(request["content"])]]]

\* parseRequestBody: the thrown ValidationError, or the validated record.
\* A body is [kind |-> "null"], [kind |-> "empty"], [kind |-> "malformed"]
\* or [kind |-> "json", value |-> v] for a text that JSON.parse turns into v.
parseRequestBody(body) ==
  IF body.kind \in {"null", "empty"}
  THEN [ok |-> FALSE, error |-> ValidationError("Request body is required"),
        data |-> <<>>]
  ELSE IF body.kind # "json"
  THEN [ok |-> FALSE, error |-> ValidationError("Invalid JSON in request body"),
        data |-> <<>>]
  ELSE LET validation == validateContactForm(body.value)
       IN  IF ~validation.success
           THEN [ok |-> FALSE, error |-> ValidationError(validation.error),
                 data |-> <<>>]
           ELSE [ok |-> TRUE, error |-> NonErrorValue, data |-> validation.data]

\* the literal configuration send passes to checkRateLimit
HandlerMaxRequests == 5
HandlerWindowMs == 60000

HandlerRateLimit ==
  [maxRequests |-> HandlerMaxRequests, windowMs |-> HandlerWindowMs]

\* event.requestContext?.identity?.sourceIp || 'unknown'; an absent address
\* and an empty one are both ""
ClientIP(event) ==
  IF event.sourceIp = "" THEN "unknown" ELSE event.sourceIp

\* event.headers?.origin || event.headers?.Origin
OriginHeader(event) ==
  IF "origin" \in DOMAIN event.headers /\ event.headers["origin"] # <<>>
  THEN [defined |-> TRUE, value |-> event.headers["origin"]]
  ELSE IF "Origin" \in DOMAIN event.headers
       THEN [defined |-> TRUE, value |-> event.headers["Origin"]]
       ELSE [defined |-> FALSE, value |-> <<>>]

\* sanitizedRequest with `subject: contactRequest.subject`
SanitizedRequest_RawSubject(contactRequest) ==
  LET base == [k \in {"email", "name", "content"} |->
                 IF k = "email" THEN contactRequest["email"]
                 ELSE sanitizeInput(contactRequest[k])]
  IN  IF "subject" \in DOMAIN contactRequest /\ contactRequest["subject"] # <<>>
      THEN base @@ ("subject" :> contactRequest["subject"])
      ELSE base

\* sanitizedRequest built from a record that was sanitized before
SanitizedRequest_Twice(contactRequest) ==
  LET base == [k \in {"email", "name", "content"} |->
                 IF k = "email" THEN contactRequest["email"]
                 ELSE sanitizeInput(sanitizeInput(contactRequest[k]))]
  IN  IF "subject" \in DOMAIN contactRequest /\ contactRequest["subject"] # <<>>
      THEN base @@ ("subject" :> sanitizeInput(sanitizeInput(contactRequest["subject"])))
      ELSE base

\* the sanitizedRequest of send
SanitizedRequest(contactRequest) ==
  LET base == [k \in {"email", "name", "content"} |->
                 IF k = "email" THEN contactRequest["email"]
                 ELSE sanitizeInput(contactRequest[k])]
  IN  IF "subject" \in DOMAIN contactRequest /\ contactRequest["subject"] # <<>>
      THEN base @@ ("subject" :> sanitizeInput(contactRequest["subject"]))
      ELSE base

NoFault ==
  [stage |-> "none", error |-> NonErrorValue]

NoResponse ==
  [statusCode |-> 0, headers |-> <<>>, body |-> <<>>]

\* catch block that reports the message of an unexpected error as details
Catch_LeaksMessage(error, domain) ==
  IF IsContactFormError(error)
  THEN [response |-> generateErrorResponse(error.statusCode, error.message, domain, ""),
        log |-> <<ErrorLog(error.statusCode, error.message, "")>>]
  ELSE [response |-> generateErrorResponse(500, "Internal server error", domain,
                                           error.message),
        log |-> <<ExceptionLog("Unexpected error:", error),
                  ErrorLog(500, "Internal server error", error.message)>>]

\* the catch block of send
Catch(error, domain) ==
  IF IsContactFormError(error)
  THEN [response |-> generateErrorResponse(error.statusCode, error.message, domain, ""),
        log |-> <<ErrorLog(error.statusCode, error.message, "")>>]
  ELSE [response |-> generateErrorResponse(500, "Internal server error", domain,
                                           "An unexpected error occurred"),
        log |-> <<ExceptionLog("Unexpected error:", error),
                  ErrorLog(500, "Internal server error", "An unexpected error occurred")>>]

\* the requests of the model
AllowedOrigin ==
  <<"h", "t", "t", "p", "s", ":", "/", "/", "a", ".", "i", "o">>

EvilOrigin ==
  <<"h", "t", "t", "p", "s", ":", "/", "/", "e", "v", "i", "l", ".", "i", "o">>

SenderAddress ==
  <<"m", "e", "@", "a", ".", "i", "o">>

EmptyMap ==
  <<>>

\* process.env: the keys that are set
Environments ==
  { ("EMAIL" :> SenderAddress),
    ("EMAIL" :> SenderAddress) @@ ("DOMAIN" :> AllowedOrigin),
    ("DOMAIN" :> AllowedOrigin),
    EmptyMap }

DefaultEnvironment ==
  ("EMAIL" :> SenderAddress)

Methods ==
  {"POST", "OPTIONS", "GET"}

\* event.requestContext.identity.sourceIp; "" when there is none
SourceIps ==
  {"192.168.1.100", ""}

HeaderSets ==
  { EmptyMap,
    ("origin" :> AllowedOrigin),
    ("Origin" :> EvilOrigin),
    ("ORIGIN" :> EvilOrigin) }

ValidForm ==
  JObject(("name" :> JString(<<"J", "o", " ", "D", "o", "e">>))
          @@ ("email" :> JString(<<"j", "o", "@", "b", ".", "i", "o">>))
          @@ ("content" :> JString(<<"H", "e", "l", "l", "o", " ", "<", "b", ">",
                                     "t", "h", "e", "r", "e", "<", "/", "b", ">",
                                     " ", "&", " ", "b", "y", "e">>)))

InvalidForm ==
  JObject(("name" :> JString(<<"J">>))
          @@ ("email" :> JString(<<"b", "a", "d">>))
          @@ ("content" :> JString(<<"s", "h", "o", "r", "t">>)))

SuspiciousForm ==
  JObject(("name" :> JString(<<"J", "o", " ", "D", "o", "e">>))
          @@ ("email" :> JString(<<"j", "o", "@", "b", ".", "i", "o">>))
          @@ ("content" :> JString(<<"<", "s", "c", "r", "i", "p", "t", ">", "x",
                                     "<", "/", "s", "c", "r", "i", "p", "t", ">",
                                     " ", "h", "e", "l", "l", "o">>)))

\* a valid submission with a subject, and with characters sanitizeInput
\* replaces in every field
SubjectForm ==
  JObject(("name" :> JString(<<" ", "O", "'", "N", "e", "i", "l", " ">>))
          @@ ("email" :> JString(<<"o", "'", "n", "@", "b", ".", "i", "o">>))
          @@ ("content" :> JString(<<"S", "a", "y", " ", "\"", "h", "i", "\"", " ", "&", "\n", "b", "y", "e", " ", "<", "3", " ">>))
          @@ ("subject" :> JString(<<" ", "R", "&", "D", " ", "<", "y", "o", "u", ">", " ">>)))

\* the valid submission with a subject added
WithSubject(form, subject) ==
  JObject(form.fields @@ ("subject" :> JString(subject)))

EmptySubjectForm ==
  WithSubject(ValidForm, <<>>)

BlankSubjectForm ==
  WithSubject(ValidForm, <<" ", "\t", " ">>)

\* a subject that matches a signature of detectSuspiciousActivity, with the
\* content of ValidForm, whose markup matches none
ScriptSubjectForm ==
  WithSubject(ValidForm, <<"<", "s", "c", "r", "i", "p", "t", ">", "x",
                           "<", "/", "s", "c", "r", "i", "p", "t", ">">>)

Bodies ==
  { [kind |-> "json", value |-> SubjectForm],
    [kind |-> "json", value |-> EmptySubjectForm],
    [kind |-> "json", value |-> BlankSubjectForm],
    [kind |-> "json", value |-> ScriptSubjectForm],
    [kind |-> "null", value |-> <<>>],
    [kind |-> "malformed", value |-> <<>>],
    [kind |-> "json", value |-> InvalidForm],
    [kind |-> "json", value |-> SuspiciousForm],
    [kind |-> "json", value |-> ValidForm] }

Events ==
  [httpMethod : Methods, sourceIp : SourceIps, headers : HeaderSets, body : Bodies]

\* the work of send on the body does not depend on the state: it is computed
\* once for each body of the model
ParsedBody ==
  [b \in Bodies |-> parseRequestBody(b)]

SuspiciousBody ==
  [b \in Bodies |-> ParsedBody[b].ok /\ detectSuspiciousActivity(ParsedBody[b].data["content"])]

SanitizedBody ==
  [b \in Bodies |-> IF ParsedBody[b].ok THEN SanitizedRequest(ParsedBody[b].data) ELSE <<>>]

\* one return of send, or its suspension at `await sendEmail`:
\* kind names the return statement, finished is FALSE while the promise of the
\* transport is pending, sesCalls counts the calls of sesClient.send
Outcome(kind, finished, result, counts, rateLimit, sesCalls, emailParams) ==
  [kind |-> kind, finished |-> finished, response |-> result.response,
   log |-> result.log, counts |-> counts, rateLimit |-> rateLimit,
   sesCalls |-> sesCalls, emailParams |-> emailParams]

\* send without the detectSuspiciousActivity check
sendSubmission_NoThreatGate(event, envVars, counts, fault) ==
  LET dom    == envVars.Domain
      parsed == ParsedBody[event.body]
  IN
  IF ~parsed.ok
  THEN Outcome("ValidationFailed", TRUE, Catch(parsed.error, dom),
               counts, "allowed", 0, <<>>)
  ELSE IF fault.stage = "sanitizeInput"
  THEN Outcome("InternalError", TRUE, Catch(fault.error, dom),
               counts, "allowed", 0, <<>>)
  ELSE
  LET created == createEmailParams(SanitizedBody[event.body], envVars.EMAIL)
  IN
  IF ~created.ok
  THEN Outcome("TransportFailure", TRUE, Catch(created.error, dom),
               counts, "allowed", 0, <<>>)
  ELSE Outcome("Pending", FALSE, [response |-> NoResponse, log |-> <<>>],
               counts, "allowed", 1, created.params)

\* send, lines 221-241: the body is parsed and validated, checked for
\* threats and sanitized, and the mail is built and handed to the transport,
\* whose answer send then awaits.  fault names a call inside the try block
\* that throws an exception which is no ContactFormError.
sendSubmission(event, envVars, counts, fault) ==
  LET dom    == envVars.Domain
      parsed == ParsedBody[event.body]
  IN
  IF ~parsed.ok
  THEN Outcome("ValidationFailed", TRUE, Catch(parsed.error, dom),
               counts, "allowed", 0, <<>>)
  ELSE IF SuspiciousBody[event.body]
  THEN Outcome("SuspiciousContent", TRUE,
               [response |-> generateErrorResponse(400, "Invalid content", dom,
                                                   "Suspicious content detected"),
                log |-> <<ErrorLog(400, "Invalid content", "Suspicious content detected")>>],
               counts, "allowed", 0, <<>>)
  ELSE IF fault.stage = "sanitizeInput"
  THEN Outcome("InternalError", TRUE, Catch(fault.error, dom),
               counts, "allowed", 0, <<>>)
  ELSE
  LET created == createEmailParams(SanitizedBody[event.body], envVars.EMAIL)
  IN
  IF ~created.ok
  THEN Outcome("TransportFailure", TRUE, Catch(created.error, dom),
               counts, "allowed", 0, <<>>)
  ELSE Outcome("Pending", FALSE, [response |-> NoResponse, log |-> <<>>],
               counts, "allowed", 1, created.params)

\* send with the origin gate ahead of the rate limit gate
sendGates_OriginFirst(event, envVars, counts, t, fault) ==
  LET dom == envVars.Domain
      rl  == checkRateLimit(counts, ClientIP(event), t, HandlerRateLimit)
  IN
  IF fault.stage = "validateOrigin"
  THEN Outcome("InternalError", TRUE, Catch(fault.error, dom),
               counts, "skipped", 0, <<>>)
  ELSE IF ~validateOrigin(OriginHeader(event).defined, OriginHeader(event).value, dom)
  THEN Outcome("ForbiddenOrigin", TRUE,
               [response |-> generateErrorResponse(403, "Forbidden", dom, "Invalid origin"),
                log |-> <<ErrorLog(403, "Forbidden", "Invalid origin")>>],
               counts, "skipped", 0, <<>>)
  ELSE IF ~rl.allowed
  THEN Outcome("RateLimited", TRUE,
               [response |-> generateErrorResponse(429, "Too many requests", dom,
                                                   "Please try again later"),
                log |-> <<ErrorLog(429, "Too many requests", "Please try again later")>>],
               rl.counts, "denied", 0, <<>>)
  ELSE sendSubmission(event, envVars, rl.counts, fault)

\* send that gives the unit of quota back to a request it turns away for
\* its origin
sendGates_RefundsForbidden(event, envVars, counts, t, fault) ==
  LET dom == envVars.Domain
      rl  == checkRateLimit(counts, ClientIP(event), t, HandlerRateLimit)
  IN
  IF ~rl.allowed
  THEN Outcome("RateLimited", TRUE,
               [response |-> generateErrorResponse(429, "Too many requests", dom,
                                                   "Please try again later"),
                log |-> <<ErrorLog(429, "Too many requests", "Please try again later")>>],
               rl.counts, "denied", 0, <<>>)
  ELSE IF fault.stage = "validateOrigin"
  THEN Outcome("InternalError", TRUE, Catch(fault.error, dom),
               rl.counts, "allowed", 0, <<>>)
  ELSE IF ~validateOrigin(OriginHeader(event).defined, OriginHeader(event).value, dom)
  THEN Outcome("ForbiddenOrigin", TRUE,
               [response |-> generateErrorResponse(403, "Forbidden", dom, "Invalid origin"),
                log |-> <<ErrorLog(403, "Forbidden", "Invalid origin")>>],
               counts, "allowed", 0, <<>>)
  ELSE sendSubmission(event, envVars, rl.counts, fault)

\* send, lines 208-219: the rate limit gate, then the origin gate
sendGates(event, envVars, counts, t, fault) ==
  LET dom == envVars.Domain
      rl  == checkRateLimit(counts, ClientIP(event), t, HandlerRateLimit)
  IN
  IF ~rl.allowed
  THEN Outcome("RateLimited", TRUE,
               [response |-> generateErrorResponse(429, "Too many requests", dom,
                                                   "Please try again later"),
                log |-> <<ErrorLog(429, "Too many requests", "Please try again later")>>],
               rl.counts, "denied", 0, <<>>)
  ELSE IF fault.stage = "validateOrigin"
  THEN Outcome("InternalError", TRUE, Catch(fault.error, dom),
               rl.counts, "allowed", 0, <<>>)
  ELSE IF ~validateOrigin(OriginHeader(event).defined, OriginHeader(event).value, dom)
  THEN Outcome("ForbiddenOrigin", TRUE,
               [response |-> generateErrorResponse(403, "Forbidden", dom, "Invalid origin"),
                log |-> <<ErrorLog(403, "Forbidden", "Invalid origin")>>],
               rl.counts, "allowed", 0, <<>>)
  ELSE sendSubmission(event, envVars, rl.counts, fault)

\* send without the `httpMethod !== 'POST'` check: every method but OPTIONS
\* runs the pipeline
sendStart_NoMethodCheck(event, environment, counts, t, fault) ==
  LET dom == getEnvVars(environment).Domain
  IN
  IF event.httpMethod = "OPTIONS"
  THEN Outcome("Preflight", TRUE,
               [response |-> generateResponse(200, [message |-> "CORS preflight successful"], dom),
                log |-> <<>>],
               counts, "skipped", 0, <<>>)
  ELSE sendGates(event, getEnvVars(environment), counts, t, fault)

\* send, from its call to its first return or to the await of the transport:
\* lines 183-206, the method checks, and then the try block
sendStart(event, environment, counts, t, fault) ==
  LET dom == getEnvVars(environment).Domain
  IN
  IF event.httpMethod = "OPTIONS"
  THEN Outcome("Preflight", TRUE,
               [response |-> generateResponse(200, [message |-> "CORS preflight successful"], dom),
                log |-> <<>>],
               counts, "skipped", 0, <<>>)
  ELSE IF event.httpMethod # "POST"
  THEN Outcome("MethodNotAllowed", TRUE,
               [response |-> generateErrorResponse(405, "Method not allowed", dom,
                                                   "Only POST requests are supported"),
                log |-> <<ErrorLog(405, "Method not allowed",
                                   "Only POST requests are supported")>>],
               counts, "skipped", 0, <<>>)
  ELSE sendGates(event, getEnvVars(environment), counts, t, fault)

\* what the promise of sesClient.send settles to
Resolved(messageId) ==
  [kind |-> "resolved", MessageId |-> messageId, error |-> NonErrorValue]

Rejected(error) ==
  [kind |-> "rejected", MessageId |-> "", error |-> error]

\* sendEmail without the `!result.MessageId` check
sendEmail_IgnoresMissingId(settled) ==
  IF settled.kind = "resolved"
  THEN [ok |-> TRUE, messageId |-> settled.MessageId, error |-> NonErrorValue,
        log |-> <<>>]
  ELSE [ok |-> FALSE, messageId |-> "",
        error |-> IF IsError(settled.error)
                  THEN EmailServiceError("Failed to send email: " \o settled.error.message)
                  ELSE EmailServiceError("Failed to send email due to unknown error"),
        log |-> <<ExceptionLog("SES Error:", settled.error)>>]

\* sendEmail after the await (lines 138-153): the message id or the thrown error
sendEmail(settled) ==
  LET thrown == IF settled.kind = "resolved"
                THEN EmailServiceError("Failed to send email - no message ID received")
                ELSE settled.error
  IN  IF settled.kind = "resolved" /\ settled.MessageId # ""
      THEN [ok |-> TRUE, messageId |-> settled.MessageId, error |-> NonErrorValue,
            log |-> <<>>]
      ELSE [ok |-> FALSE, messageId |-> "",
            error |-> IF IsError(thrown)
                      THEN EmailServiceError("Failed to send email: " \o thrown.message)
                      ELSE EmailServiceError("Failed to send email due to unknown error"),
            log |-> <<ExceptionLog("SES Error:", thrown)>>]

\* send that calls the transport again when the call was rejected, and
\* awaits the second answer
sendFinish_RetriesTransport(dom, counts, settled, fault) ==
  LET sent == sendEmail(settled)
  IN
  IF settled.kind = "rejected"
  THEN Outcome("Pending", FALSE, [response |-> NoResponse, log |-> sent.log],
               counts, "allowed", 2, <<>>)
  ELSE IF ~sent.ok
  THEN LET caught == Catch(sent.error, dom)
       IN  Outcome("TransportFailure", TRUE,
                   [response |-> caught.response, log |-> sent.log \o caught.log],
                   counts, "allowed", 1, <<>>)
  ELSE IF fault.stage = "respond"
  THEN Outcome("InternalError", TRUE, Catch(fault.error, dom),
               counts, "allowed", 1, <<>>)
  ELSE Outcome("Sent", TRUE,
               [response |-> generateResponse(200,
                               [success |-> TRUE,
                                message |-> "Your message has been sent successfully!",
                                messageId |-> sent.messageId], dom),
                log |-> <<[level |-> "log", statusCode |-> 0,
                           error |-> "Contact form submitted successfully:",
                           details |-> sent.messageId]>>],
               counts, "allowed", 1, <<>>)

\* send, from the settlement of the transport to its return (lines 241-271)
sendFinish(dom, counts, settled, fault) ==
  LET sent == sendEmail(settled)
  IN
  IF ~sent.ok
  THEN LET caught == Catch(sent.error, dom)
       IN  Outcome("TransportFailure", TRUE,
                   [response |-> caught.response, log |-> sent.log \o caught.log],
                   counts, "allowed", 1, <<>>)
  ELSE IF fault.stage = "respond"
  THEN Outcome("InternalError", TRUE, Catch(fault.error, dom),
               counts, "allowed", 1, <<>>)
  ELSE Outcome("Sent", TRUE,
               [response |-> generateResponse(200,
                               [success |-> TRUE,
                                message |-> "Your message has been sent successfully!",
                                messageId |-> sent.messageId], dom),
                log |-> <<[level |-> "log", statusCode |-> 0,
                           error |-> "Contact form submitted successfully:",
                           details |-> sent.messageId]>>],
               counts, "allowed", 1, <<>>)

----------------------------------------------------------------------------
(* Inputs                                                                  *)

\* number of handler invocations that may wait for the transport at once
MaxInFlight == 2
\* number of clock advances in one run
MaxTicks == 4
\* largest maxRequests of the configurations of the direct calls
MaxConfigRequests == 2

\* the requests that carry a source address
AddressedEvents ==
  {e \in Events : e.sourceIp # ""}

\* the valid submissions without an origin header
PlainPosts ==
  {e \in AddressedEvents :
                  /\ e.httpMethod = "POST"
                  /\ e.headers = EmptyMap
                  /\ e.body.kind = "json" /\ e.body.value = ValidForm}

\* exceptions that are no ContactFormError, thrown inside the try block
StartFaults ==
  { NoFault,
    [stage |-> "validateOrigin", error |-> PlainError("origin.endsWith is not a function")],
    [stage |-> "sanitizeInput", error |-> PlainError("Cannot read properties of undefined")] }

FinishFaults ==
  { NoFault,
    [stage |-> "respond", error |-> NonErrorValue] }

TransportErrorTexts ==
  {"SES service unavailable", "Throttling: Maximum sending rate exceeded"}

Settlements ==
  {Resolved("0123456789abcdef-000000"), Resolved("")}
    \cup {Rejected(PlainError(m)) : m \in TransportErrorTexts}
    \cup {Rejected(NonErrorValue)}

\* the transport accepts the mail, or fails
PlainSettlements ==
  {Resolved("0123456789abcdef-000000"), Rejected(NonErrorValue)}

ClockSteps ==
  {30000, 30001}

WindowDurations ==
  {30000, HandlerWindowMs}

Configs ==
  [maxRequests : 0..MaxConfigRequests, windowMs : {30000}]
    \cup {HandlerRateLimit}

\* the durations of the sweeps where the windows are looked at: also one
\* of less than half a window
SweepDurations ==
  WindowDurations \cup {10000}

LoggedIdentities ==
  {a \in SourceIps : a # ""}

WindowConfigs ==
  [maxRequests : 1..MaxConfigRequests, windowMs : {HandlerWindowMs}]

\* the payloads of the direct calls of validateContactForm.  A field is
\* absent, a number, or the string left \o core \o right, where left and
\* right are white space and core neither starts nor ends with white space;
\* wellFormed tells whether core has the form the field asks for.
Fill(c, n) ==
  [i \in 1..n |-> c]

FieldOption(given, left, core, right, wellFormed) ==
  [given |-> given, left |-> left, core |-> core, right |-> right,
   wellFormed |-> wellFormed]

AbsentField ==
  FieldOption("absent", <<>>, <<>>, <<>>, FALSE)

NumberField ==
  FieldOption("number", <<>>, <<>>, <<>>, FALSE)

Bare(core, wellFormed) ==
  FieldOption("string", <<>>, core, <<>>, wellFormed)

Padded(core, wellFormed) ==
  FieldOption("string", <<" ", "\t">>, core, <<"\n", " ">>, wellFormed)

NameOptions ==
  { AbsentField, NumberField,
    Bare(<<"J">>, TRUE),
    Padded(<<"J", "o">>, TRUE),
    Padded(Fill("a", NameMax), TRUE),
    Bare(Fill("a", NameMax + 1), TRUE),
    Bare(<<"J", "o", " ", "D", "0", "e">>, FALSE),
    Padded(<<>>, FALSE),
    Bare(<<"O", "'", "N", "e", "i", "l", "-", "S", "m", "i", "t", "h", " ",
           "J", "r", ".">>, TRUE) }

EmailOptions ==
  { AbsentField,
    Bare(<<"j", "o", "@", "b", ".", "i", "o">>, TRUE),
    Padded(<<"j", "o", "@", "b", ".", "i", "o">>, TRUE),
    Bare(<<"j", "o", "@", "b">>, FALSE) }

ContentOptions ==
  { AbsentField,
    Padded(Fill("x", ContentMin - 1), TRUE),
    Bare(Fill("x", ContentMin), TRUE),
    Padded(<<"H", "e", "l", "l", "o", " ", "t", "h", "e", "r", "e">>, TRUE),
    Padded(Fill("x", ContentMax), TRUE),
    Bare(Fill("x", ContentMax + 1), TRUE) }

SubjectOptions ==
  { AbsentField, NumberField,
    Padded(<<"H", "i">>, TRUE),
    Padded(Fill("s", SubjectMax), TRUE),
    Bare(Fill("s", SubjectMax + 1), TRUE),
    Bare(<<>>, TRUE) }

FieldNames ==
  {"email", "name", "content", "subject"}

Payloads ==
  [email : EmailOptions, name : NameOptions, content : ContentOptions,
   subject : SubjectOptions]

\* the JSON value of a field that is present
FieldValue(o) ==
  IF o.given = "string"
  THEN JString(o.left \o o.core \o o.right)
  ELSE [type |-> "number", text |-> <<>>]

\* the object JSON.parse hands to validateContactForm
PayloadValue(p) ==
  JObject([k \in {x \in FieldNames : p[x].given # "absent"} |-> FieldValue(p[k])])

\* the arguments of the direct calls of validateOrigin
OriginTexts ==
  { <<>>, AllowedOrigin, EvilOrigin,
    <<"h", "t", "t", "p", "s", ":", "/", "/", "x", ".", "a", ".", "i", "o">>,
    <<"a", ".", "i", "o">>,
    <<"h", "t", "t", "p", "s", ":", "/", "/", "n", "o", "t", "a", ".", "i", "o">>,
    <<"h", "t", "t", "p", "s", ":", "/", "/", "a", ".", "i", "o", ".", "e", "v", "i", "l", ".", "i", "o">> }

OriginArguments ==
  {[defined |-> FALSE, value |-> <<>>]}
    \cup {[defined |-> TRUE, value |-> v] : v \in OriginTexts}

AllowedDomains ==
  { Star, AllowedOrigin,
    <<"*", ".", "a", ".", "i", "o">>,
    <<"*", ".">>,
    <<"a", ".", "i", "o">>,
    <<"*", "a", ".", "i", "o">> }

\* length of the longest text of the exhaustive inputs of sanitizeInput
MaxTextLen == 3

TextAlphabet ==
  {"<", ">", "&", "\"", "'", " ", "a", "/"}

\* the arguments of the direct calls of sanitizeInput: every text over the
\* alphabet up to the length bound, and texts that hold entities already
SanitizeTexts ==
  UNION {[1..n -> TextAlphabet] : n \in 0..MaxTextLen}
    \cup { <<"&", "l", "t", ";">>,
           <<"&", "a", "m", "p", ";">>,
           <<"T", "o", "m", " ", "&", "#", "3", "9", ";", "n", "&", "#", "3", "9", ";", " ", "J", "e", "r", "r", "y", ";">>,
           <<"\t", "<", "b", ">", "\"", "x", "\"", " ", "&", " ", "y", "<", "/", "b", ">", "\n">>,
           <<" ", " ", "H", "e", "l", "l", "o", " ", "W", "o", "r", "l", "d", " ", " ">> }

\* the arguments of the direct calls of detectSuspiciousActivity: a text
\* that holds one of the signatures, or none, between a start and an end
\* that hold none
SignatureTexts ==
  { <<"<", "s", "c", "r", "i", "p", "t", ">", "a", "l", "e", "r", "t", "(",
      "1", ")", "<", "/", "s", "c", "r", "i", "p", "t", ">">>,
    <<"<", "S", "C", "R", "I", "P", "T", " ", "S", "R", "C", "=", "x", ">",
      "<", "/", "S", "c", "R", "i", "P", "t", ">">>,
    <<"<", "s", "c", "r", "i", "p", "t", "\n", ">", "x", "\n", "<", "/",
      "s", "c", "r", "i", "p", "t", ">">>,
    <<"j", "a", "v", "a", "s", "c", "r", "i", "p", "t", ":", "a", "l", "e",
      "r", "t", "(", "1", ")">>,
    <<"J", "a", "V", "a", "S", "c", "R", "i", "P", "t", ":", "x">>,
    <<"o", "n", "c", "l", "i", "c", "k", "=", "x">>,
    <<"O", "N", "L", "O", "A", "D", " ", "=", "x">>,
    <<"m", "o", "n", "e", "y", " ", "=", " ", "5">>,
    <<"d", "a", "t", "a", ":", "t", "e", "x", "t", "/", "h", "t", "m", "l",
      ",", "x">>,
    <<"D", "A", "T", "A", ":", "T", "e", "x", "t", "/", "H", "T", "M", "L">>,
    <<"v", "b", "s", "c", "r", "i", "p", "t", ":", "m", "s", "g", "b", "o",
      "x">>,
    <<"V", "B", "S", "c", "r", "i", "p", "t", ":">>,
    <<"<", "i", "f", "r", "a", "m", "e", " ", "s", "r", "c", "=", "x", ">",
      "<", "/", "i", "f", "r", "a", "m", "e", ">">>,
    <<"<", "o", "b", "j", "e", "c", "t", ">", "<", "/", "o", "b", "j", "e",
      "c", "t", ">">>,
    <<"<", "E", "M", "B", "E", "D", " ", "s", "r", "c", "=", "x", ">", "<",
      "/", "e", "m", "b", "e", "d", ">">> }

BenignTexts ==
  { <<>>,
    <<"I", " ", "l", "o", "v", "e", " ", "<", "3", " ", "p", "r", "o", "g",
      "r", "a", "m", "m", "i", "n", "g">>,
    <<"H", "e", "l", "l", "o", ",", " ", "n", "o", "r", "m", "a", "l", " ",
      "m", "e", "s", "s", "a", "g", "e", ".">>,
    <<"<", "s", "c", "r", "i", "p", "t", ">", "a", "l", "e", "r", "t", "(",
      "1", ")">>,
    <<"<", "/", "s", "c", "r", "i", "p", "t", ">", "<", "s", "c", "r", "i",
      "p", "t", ">">>,
    <<"j", "a", "v", "a", "s", "c", "r", "i", "p", "t", " ", "a", "l", "e",
      "r", "t">>,
    <<"o", "n", " ", "=", " ", "x">>,
    <<"o", "n", "-", "c", "l", "i", "c", "k", "=", "x">>,
    <<"d", "a", "t", "a", ":", "t", "e", "x", "t", "/", "p", "l", "a", "i",
      "n">>,
    <<"v", "b", " ", "s", "c", "r", "i", "p", "t", ":">>,
    <<"<", "i", "f", "r", "a", "m", "e", " ", "s", "r", "c", "=", "x", ">">>,
    <<"<", "b", ">", "b", "o", "l", "d", "<", "/", "b", ">", " ", "&", " ",
      "<", "i", ">", "i", "t", "<", "/", "i", ">">> }

TextStarts ==
  { <<>>, <<"H", "i", " ">>, <<"<", "p", ">">> }

TextEnds ==
  { <<>>, <<" ", "o", "k">>, <<"<", "/", "p", ">", "\n">> }

DetectInputs ==
  [start : TextStarts, core : SignatureTexts, end : TextEnds, threat : {TRUE}]
    \cup [start : TextStarts, core : BenignTexts, end : TextEnds, threat : {FALSE}]

----------------------------------------------------------------------------
(* State                                                                   *)

VARIABLES
  requestCounts,   \* the Map of the rate limiter: identity -> count, windowStart
  now,             \* Date.now()
  ticks,           \* number of clock advances so far
  environment,     \* process.env
  rlConfig,        \* the configuration of the direct calls of checkRateLimit
  inflight,        \* per slot, the invocation of send waiting for the transport
  step,            \* the call that has just returned, until it is delivered
  window,          \* per identity, the calls since the start of its window
  passes           \* per logged identity, the times of its allowed calls

vars ==
  <<requestCounts, now, ticks, environment, rlConfig, inflight, step, window,
    passes>>

Slots ==
  1..MaxInFlight

IdleSlot ==
  [busy |-> FALSE, ip |-> "", dom |-> <<>>]

NoStep ==
  [op |-> "none"]

\* the window of the property: it starts with the first call for the identity
\* and with the first call made more than windowMs after its start
InWindow(w, ip, t, config) ==
  ip \in DOMAIN w /\ t - w[ip].start <= config.windowMs

Min(a, b) ==
  IF a < b THEN a ELSE b

WindowAfter(w, ip, t, config, allowed) ==
  IF InWindow(w, ip, t, config)
  THEN [w EXCEPT ![ip] = [start  |-> @.start,
                          calls  |-> Min(@.calls + 1, config.maxRequests + 1),
                          passed |-> @.passed + (IF allowed THEN 1 ELSE 0)]]
  ELSE MapSet(w, ip, [start |-> t, calls |-> 1,
                      passed |-> IF allowed THEN 1 ELSE 0])

\* the call of checkRateLimit as the properties see it
CallRecord(w, ip, t, config, allowed) ==
  [ip |-> ip, config |-> config, allowed |-> allowed,
   callsBefore |-> IF InWindow(w, ip, t, config) THEN w[ip].calls ELSE 0]

\* the entry of the identity before the call
EntryBefore(counts, ip) ==
  IF ip \in DOMAIN counts
  THEN [known |-> TRUE, count |-> counts[ip].count, windowStart |-> counts[ip].windowStart]
  ELSE [known |-> FALSE, count |-> 0, windowStart |-> 0]

\* the log of the allowed calls: an allowed call of a logged identity is
\* entered with its time
PassesAfter(p, ip, t, allowed) ==
  IF allowed /\ ip \in DOMAIN p
  THEN [p EXCEPT ![ip].times = Append(@, t)]
  ELSE p

\* a sweep that removes the entry of a logged identity while its window is
\* still running is entered with its time
PassesCut(p, removedEarly, t) ==
  [ip \in DOMAIN p |-> IF ip \in removedEarly
                       THEN [p[ip] EXCEPT !.cuts = Append(@, t)]
                       ELSE p[ip]]

\* the log keeps what happened at the time t or later
PassesSince(p, t) ==
  [ip \in DOMAIN p |->
     [times |-> SelectSeq(p[ip].times, LAMBDA x : x >= t),
      cuts  |-> SelectSeq(p[ip].cuts, LAMBDA x : x >= t)]]

Init ==
  /\ requestCounts = EmptyMap
  /\ now = 0
  /\ ticks = 0
  /\ environment \in Environments
  /\ rlConfig = HandlerRateLimit
  /\ inflight = [s \in Slots |-> IdleSlot]
  /\ step = NoStep
  /\ window = EmptyMap
  /\ passes = EmptyMap

InitLimiter ==
  /\ requestCounts = EmptyMap
  /\ now = 0
  /\ ticks = 0
  /\ environment = DefaultEnvironment
  /\ rlConfig \in Configs
  /\ inflight = [s \in Slots |-> IdleSlot]
  /\ step = NoStep
  /\ window = EmptyMap
  /\ passes = EmptyMap

----------------------------------------------------------------------------
(* Actions                                                                 *)

\* an invocation of send runs until it returns or awaits the transport
Invoke(event, fault) ==
  /\ step.op = "none"
  /\ \E s \in Slots : ~inflight[s].busy
  /\ LET s   == CHOOSE x \in Slots : ~inflight[x].busy /\ \A y \in Slots : ~inflight[y].busy => x <= y
         out == sendStart(event, environment, requestCounts, now, fault)
         ip  == ClientIP(event)
     IN  /\ requestCounts' = out.counts
         /\ inflight' = IF out.finished THEN inflight
                        ELSE [inflight EXCEPT ![s] =
                                [busy |-> TRUE, ip |-> ip,
                                 dom |-> getEnvVars(environment).Domain]]
         /\ window' = IF out.rateLimit = "skipped" THEN window
                      ELSE WindowAfter(window, ip, now, HandlerRateLimit,
                                       out.rateLimit = "allowed")
         /\ passes' = PassesAfter(passes, ip, now, out.rateLimit = "allowed")
         /\ step' = [op |-> "send", slot |-> s, event |-> event, fault |-> fault,
                     out |-> out,
                     call |-> CallRecord(window, ip, now, HandlerRateLimit,
                                         out.rateLimit = "allowed"),
                     before |-> EntryBefore(requestCounts, ip)]
  /\ UNCHANGED <<now, ticks, environment, rlConfig>>

\* the promise of sesClient.send settles and send runs to its return
Settle(s, settled, fault) ==
  /\ step.op = "none"
  /\ inflight[s].busy
  /\ LET out == sendFinish(inflight[s].dom, requestCounts, settled, fault)
     IN  step' = [op |-> "resume", slot |-> s, ip |-> inflight[s].ip,
                  dom |-> inflight[s].dom, fault |-> fault, out |-> out,
                  settled |-> settled]
  /\ inflight' = IF sendFinish(inflight[s].dom, requestCounts, settled, fault).finished
                 THEN [inflight EXCEPT ![s] = IdleSlot]
                 ELSE inflight
  /\ UNCHANGED <<requestCounts, now, ticks, environment, rlConfig, window, passes>>

\* the runtime takes the result of the call
Deliver ==
  /\ step.op # "none"
  /\ step' = NoStep
  /\ UNCHANGED <<requestCounts, now, ticks, environment, rlConfig, inflight, window,
               passes>>

Tick(d) ==
  /\ step.op = "none"
  /\ ticks < MaxTicks
  /\ now' = now + d
  /\ ticks' = ticks + 1
  /\ passes' = PassesSince(passes, now + d - rlConfig.windowMs)
  /\ UNCHANGED <<requestCounts, environment, rlConfig, inflight, step, window>>

\* a direct call of the exported checkRateLimit
CheckRateLimitCall(sourceIp) ==
  /\ step.op = "none"
  /\ LET ip  == ClientIP([sourceIp |-> sourceIp])
         res == checkRateLimit(requestCounts, ip, now, rlConfig)
     IN  /\ requestCounts' = res.counts
         /\ window' = WindowAfter(window, ip, now, rlConfig, res.allowed)
         /\ passes' = PassesAfter(passes, ip, now, res.allowed)
         /\ step' = [op |-> "checkRateLimit", sourceIp |-> sourceIp,
                     call |-> CallRecord(window, ip, now, rlConfig, res.allowed),
                     before |-> EntryBefore(requestCounts, ip)]
  /\ UNCHANGED <<now, ticks, environment, rlConfig, inflight>>

\* a call of the exported cleanupRateLimit; a removed entry ends its window
Sweep(windowMs) ==
  /\ step.op = "none"
  /\ requestCounts' = cleanupRateLimit(requestCounts, now, windowMs)
  /\ window' = [ip \in DOMAIN window \cap DOMAIN requestCounts' |-> window[ip]]
  /\ passes' = PassesCut(passes,
                         {k \in DOMAIN requestCounts \ DOMAIN requestCounts' :
                            now - requestCounts[k].windowStart <= rlConfig.windowMs},
                         now)
  /\ step' = [op |-> "cleanupRateLimit", windowMs |-> windowMs,
              removed |-> DOMAIN requestCounts
                            \ DOMAIN cleanupRateLimit(requestCounts, now, windowMs)]
  /\ UNCHANGED <<now, ticks, environment, rlConfig, inflight>>

\* a direct call of the exported validateContactForm; issues are the
\* messages of the ZodError the schema raised
ValidateCall(p) ==
  /\ step.op = "none"
  /\ step' = [op |-> "validateContactForm", input |-> p,
              issues |-> SchemaIssues(PayloadValue(p)),
              result |-> validateContactForm(PayloadValue(p))]
  /\ UNCHANGED <<requestCounts, now, ticks, environment, rlConfig, inflight, window,
               passes>>

\* a direct call of the exported validateOrigin
ValidateOriginCall(origin, allowedDomain) ==
  /\ step.op = "none"
  /\ step' = [op |-> "validateOrigin", origin |-> origin,
              allowedDomain |-> allowedDomain,
              result |-> validateOrigin(origin.defined, origin.value, allowedDomain)]
  /\ UNCHANGED <<requestCounts, now, ticks, environment, rlConfig, inflight, window,
               passes>>

\* a direct call of the exported sanitizeInput, and a call on its result
SanitizeCall(input) ==
  /\ step.op = "none"
  /\ step' = [op |-> "sanitizeInput", input |-> input,
              result |-> sanitizeInput(input),
              again |-> sanitizeInput(sanitizeInput(input))]
  /\ UNCHANGED <<requestCounts, now, ticks, environment, rlConfig, inflight, window,
               passes>>

\* a direct call of the exported detectSuspiciousActivity, and a second
\* call with the same text
DetectCall(d) ==
  /\ step.op = "none"
  /\ step' = [op |-> "detectSuspiciousActivity", input |-> d,
              result |-> detectSuspiciousActivity(d.start \o d.core \o d.end),
              again |-> detectSuspiciousActivity(d.start \o d.core \o d.end)]
  /\ UNCHANGED <<requestCounts, now, ticks, environment, rlConfig, inflight, window,
               passes>>

Next ==
  \/ \E e \in AddressedEvents, f \in StartFaults : Invoke(e, f)
  \/ \E s \in Slots, o \in Settlements, f \in FinishFaults : Settle(s, o, f)
  \/ Deliver

Spec ==
  Init /\ [][Next]_vars

\* the runtime takes every returned result, and the promise of the transport
\* of every waiting invocation settles and its continuation gets its turn
\* on the event loop
Fairness ==
  /\ WF_vars(Deliver)
  /\ \A s \in Slots :
       SF_vars(\E o \in Settlements, f \in FinishFaults : Settle(s, o, f))

SpecLive ==
  Init /\ [][Next]_vars /\ Fairness

NextLimiter ==
  \/ \E ip \in SourceIps : CheckRateLimitCall(ip)
  \/ \E w \in WindowDurations : Sweep(w)
  \/ /\ rlConfig = HandlerRateLimit
     /\ \E e \in PlainPosts : Invoke(e, NoFault)
  \/ \E s \in Slots, o \in PlainSettlements : Settle(s, o, NoFault)
  \/ Deliver
  \/ \E d \in ClockSteps : Tick(d)

SpecLimiter ==
  InitLimiter /\ [][NextLimiter]_vars

\* the limiter under one configuration with a window of the handler's
\* length; the calls come from two identities and the allowed calls of the
\* one with an address are logged
InitWindows ==
  /\ requestCounts = EmptyMap
  /\ now = 0
  /\ ticks = 0
  /\ environment = DefaultEnvironment
  /\ rlConfig \in WindowConfigs
  /\ inflight = [s \in Slots |-> IdleSlot]
  /\ step = NoStep
  /\ window = EmptyMap
  /\ passes = [ip \in LoggedIdentities |-> [times |-> <<>>, cuts |-> <<>>]]

NextWindows ==
  \/ \E ip \in SourceIps : CheckRateLimitCall(ip)
  \/ \E w \in SweepDurations : Sweep(w)
  \/ Deliver
  \/ \E d \in ClockSteps : Tick(d)

SpecWindows ==
  InitWindows /\ [][NextWindows]_vars

NextValidator ==
  \/ \E p \in Payloads : ValidateCall(p)
  \/ Deliver

SpecValidator ==
  InitLimiter /\ [][NextValidator]_vars

NextSecurity ==
  \/ \E o \in OriginArguments, d \in AllowedDomains : ValidateOriginCall(o, d)
  \/ \E t \in SanitizeTexts : SanitizeCall(t)
  \/ \E d \in DetectInputs : DetectCall(d)
  \/ Deliver

SpecSecurity ==
  Init /\ [][NextSecurity]_vars

----------------------------------------------------------------------------
(* Properties                                                              *)

\* the step is a call of checkRateLimit, direct or made by send
IsLimiterCall ==
  \/ step.op = "checkRateLimit"
  \/ step.op = "send" /\ step.out.rateLimit # "skipped"

\* C1: for one identity and a fixed configuration with maxRequests >= 1, a
\* call made within the window of the identity returns true exactly when
\* fewer than maxRequests calls were made in the window before it; send
\* applies this with 5 requests per 60000 ms keyed by the source address, so
\* the sixth POST of a window gets 429 'Too many requests' and a valid POST
\* within the quota whose mail is accepted gets 200.
C1_FirstMaxRequestsPass ==
  /\ (IsLimiterCall /\ step.call.config.maxRequests >= 1)
       => (step.call.allowed <=> step.call.callsBefore < step.call.config.maxRequests)
  /\ (step.op = "send" /\ step.event.httpMethod = "POST")
       => /\ step.call.ip = (IF step.event.sourceIp = "" THEN "unknown"
                              ELSE step.event.sourceIp)
          /\ step.call.config = [maxRequests |-> 5, windowMs |-> 60000]
          /\ (step.call.callsBefore >= 5)
               => /\ step.out.finished
                  /\ step.out.response.statusCode = 429
                  /\ step.out.response.body.error = "Too many requests"
          /\ (step.call.callsBefore < 5) => step.out.response.statusCode # 429
  /\ (step.op = "resume" /\ step.settled.kind = "resolved" /\ step.settled.MessageId # "")
       => step.out.response.statusCode = 200

\* the sixth POST of an identity within its window is answered 429
C1_Witness ==
  /\ step.op = "send"
  /\ step.call.callsBefore = 5
  /\ step.out.response.statusCode = 429

\* C4: with several invocations of send in flight, no more than maxRequests
\* requests of one identity pass the rate limit gate within one window, and
\* the count of the entry is the number of requests that passed.
C4_AtomicRateLimit ==
  rlConfig = HandlerRateLimit
    => \A ip \in DOMAIN window :
         /\ window[ip].passed <= HandlerMaxRequests
         /\ ip \in DOMAIN requestCounts
         /\ requestCounts[ip].count = window[ip].passed

\* the fifth request of a window passes the gate while the fourth still
\* waits for the transport
C4_Witness ==
  /\ step.op = "send"
  /\ ~step.out.finished
  /\ step.call.callsBefore = 4
  /\ \A s \in Slots : inflight[s].busy /\ inflight[s].ip = step.call.ip

\* C5: a call for an identity that has an entry returns true and restarts the
\* window with count 1 at the current time when more than windowMs has
\* elapsed since the window start, whatever the count was; when at most
\* windowMs has elapsed the window start is kept and the count is not reset.
C5_ResetAfterWindow ==
  (IsLimiterCall /\ step.before.known)
    => IF now - step.before.windowStart > step.call.config.windowMs
       THEN /\ step.call.allowed
            /\ requestCounts[step.call.ip] = [count |-> 1, windowStart |-> now]
       ELSE /\ requestCounts[step.call.ip].windowStart = step.before.windowStart
            /\ requestCounts[step.call.ip].count =
                 step.before.count + (IF step.call.allowed THEN 1 ELSE 0)

\* an exhausted entry is reset by the first call after its window
C5_Witness ==
  /\ IsLimiterCall
  /\ step.before.known
  /\ step.call.config.maxRequests >= 1
  /\ step.before.count >= step.call.config.maxRequests
  /\ now - step.before.windowStart > step.call.config.windowMs
  /\ requestCounts[step.call.ip] = [count |-> 1, windowStart |-> now]

\* the gates of send, evaluated on the request of the step
IsSubmission ==
  step.op = "send" /\ step.event.httpMethod = "POST"

WithinQuota ==
  step.call.callsBefore < 5

OriginAccepted ==
  validateOrigin(OriginHeader(step.event).defined, OriginHeader(step.event).value,
                 getEnvVars(environment).Domain)

BodyAccepted ==
  /\ step.event.body.kind = "json"
  /\ validateContactForm(step.event.body.value).success

ContentFlagged ==
  detectSuspiciousActivity(validateContactForm(step.event.body.value).data["content"])

SenderConfigured ==
  "EMAIL" \in DOMAIN environment /\ environment["EMAIL"] # <<>>

\* the submission of the step passes every gate before the mail step
ReachesMailStep ==
  /\ IsSubmission
  /\ WithinQuota
  /\ OriginAccepted
  /\ BodyAccepted
  /\ ~ContentFlagged

\* C2: the mail transport is invoked for a request only if the method is
\* POST, the rate limiter allowed it, the origin was accepted, the body
\* parsed and passed the schema, the content was not flagged and a sender
\* address is configured; it is invoked at most once per request.
C2_TransportOnlyAfterAllGates ==
  /\ (step.op = "send" /\ step.out.sesCalls > 0)
       => /\ ReachesMailStep
          /\ SenderConfigured
          /\ step.out.sesCalls = 1
          /\ ~step.out.finished
  /\ (step.op = "send" /\ ~step.out.finished) => step.out.sesCalls = 1
  /\ (step.op = "resume") => step.out.sesCalls = 1

\* a submission is handed to the transport
C2_Witness ==
  /\ step.op = "send"
  /\ step.out.sesCalls = 1
  /\ step.out.emailParams.Source = SenderAddress

\* C3: the outcome of a submission is that of the earliest failing gate in
\* the order rate limit, origin, body parse, schema validation, threat
\* detection, mail step.
C3_EarliestFailingGate ==
  (IsSubmission /\ step.fault = NoFault)
    => LET r == step.out.response
       IN  IF ~WithinQuota
           THEN r.statusCode = 429 /\ r.body.error = "Too many requests"
           ELSE IF ~OriginAccepted
           THEN r.statusCode = 403 /\ r.body.error = "Forbidden"
           ELSE IF step.event.body.kind \in {"null", "empty"}
           THEN r.statusCode = 400 /\ r.body.error = "Request body is required"
           ELSE IF step.event.body.kind # "json"
           THEN r.statusCode = 400 /\ r.body.error = "Invalid JSON in request body"
           ELSE IF ~BodyAccepted
           THEN /\ r.statusCode = 400
                /\ r.body.error = validateContactForm(step.event.body.value).error
           ELSE IF ContentFlagged
           THEN r.statusCode = 400 /\ r.body.error = "Invalid content"
           ELSE IF ~SenderConfigured
           THEN r.statusCode = 500
           ELSE ~step.out.finished

\* a submission of a rate-limited identity with a disallowed origin and an
\* invalid body is answered 429
C3_Witness ==
  /\ IsSubmission
  /\ step.fault = NoFault
  /\ ~WithinQuota
  /\ ~OriginAccepted
  /\ ~BodyAccepted
  /\ step.out.response.statusCode = 429

\* C6: a request whose method is not POST is answered at once: the table of
\* the rate limiter is unchanged and the transport is not invoked; OPTIONS
\* gets 200 with the CORS headers, any other method 405 'Method not allowed'.
C6_NonPostTouchesNothing ==
  [][(step'.op = "send" /\ step'.event.httpMethod # "POST")
       => /\ requestCounts' = requestCounts
          /\ inflight' = inflight
          /\ step'.out.finished
          /\ step'.out.rateLimit = "skipped"
          /\ step'.out.sesCalls = 0
          /\ step'.out.response.headers = getCorsHeaders(getEnvVars(environment).Domain)
          /\ IF step'.event.httpMethod = "OPTIONS"
             THEN step'.out.response.statusCode = 200
             ELSE /\ step'.out.response.statusCode = 405
                  /\ step'.out.response.body.error = "Method not allowed"]_vars

\* a GET of an identity whose quota is used up is answered 405
C6_Witness ==
  /\ step.op = "send"
  /\ step.event.httpMethod = "GET"
  /\ step.event.sourceIp \in DOMAIN requestCounts
  /\ requestCounts[step.event.sourceIp].count = 5
  /\ step.out.response.statusCode = 405

\* the status code of each kind of outcome
StatusOfKind ==
  [Sent |-> 200, Preflight |-> 200, ValidationFailed |-> 400,
   SuspiciousContent |-> 400, ForbiddenOrigin |-> 403, MethodNotAllowed |-> 405,
   RateLimited |-> 429, TransportFailure |-> 500, InternalError |-> 500]

\* C7: the status code of a response is determined by the kind of its outcome
\* alone: 200 for Sent and preflight, 400 for ValidationFailed and
\* SuspiciousContent, 403 for ForbiddenOrigin, 405 for MethodNotAllowed, 429
\* for RateLimited, 500 for TransportFailure and InternalError.
C7_StatusByKind ==
  (step.op \in {"send", "resume"} /\ step.out.finished)
    => /\ step.out.kind \in DOMAIN StatusOfKind
       /\ step.out.response.statusCode = StatusOfKind[step.out.kind]

\* a body that fails the schema is answered 400
C7_Witness ==
  /\ IsSubmission
  /\ WithinQuota
  /\ OriginAccepted
  /\ step.fault = NoFault
  /\ step.event.body.kind = "json"
  /\ ~BodyAccepted
  /\ step.out.kind = "ValidationFailed"
  /\ step.out.response.statusCode = 400

\* C8: when the transport call fails with an error, the body of the response
\* does not depend on the text of that error: it is the body send would have
\* returned for any other error text.
C8_GenericTransportFailure ==
  (step.op = "resume" /\ step.settled.kind = "rejected"
     /\ step.settled.error.class = "Error")
    => \A m \in TransportErrorTexts :
         step.out.response.body =
           sendFinish(step.dom, requestCounts, Rejected(PlainError(m)),
                      step.fault).response.body

\* an exception that is no ContactFormError is raised in the try block of send
FaultRaised ==
  \/ /\ IsSubmission
     /\ WithinQuota
     /\ step.fault.stage = "validateOrigin"
  \/ /\ ReachesMailStep
     /\ step.fault.stage = "sanitizeInput"
  \/ /\ step.op = "resume"
     /\ step.settled.kind = "resolved"
     /\ step.settled.MessageId # ""
     /\ step.fault.stage = "respond"

\* C9: an exception raised while a request is handled that is no
\* ContactFormError is answered with status 500 and the fixed body
\* {success: false, error: 'Internal server error', details: 'An unexpected
\* error occurred'}, whatever its message.
C9_UnexpectedErrorIsInternal ==
  FaultRaised
    => /\ step.out.finished
       /\ step.out.response.statusCode = 500
       /\ step.out.response.body =
            [success |-> FALSE, error |-> "Internal server error",
             details |-> "An unexpected error occurred"]

\* a TypeError thrown while the fields are sanitized
C9_Witness ==
  /\ FaultRaised
  /\ step.fault.stage = "sanitizeInput"
  /\ step.fault.error.message # ""
  /\ step.out.response.statusCode = 500

\* C10: every failure of the mail step ends the request with status 500 and
\* success false: a missing sender address (the transport is then not
\* invoked), an error raised by the transport, and an answer of the
\* transport without a message identifier.
C10_MailFailureIs500 ==
  /\ (ReachesMailStep /\ step.fault = NoFault /\ ~SenderConfigured)
       => /\ step.out.finished
          /\ step.out.sesCalls = 0
          /\ step.out.response.statusCode = 500
          /\ step.out.response.body.success = FALSE
  /\ (step.op = "resume"
        /\ (step.settled.kind = "rejected" \/ step.settled.MessageId = ""))
       => /\ step.out.finished
          /\ step.out.response.statusCode = 500
          /\ step.out.response.body.success = FALSE

\* the transport answers without a message identifier
C10_Witness ==
  /\ step.op = "resume"
  /\ step.settled.kind = "resolved"
  /\ step.settled.MessageId = ""
  /\ step.out.response.statusCode = 500

\* the invocation has returned a response
HasReturned(out) ==
  /\ out.finished
  /\ out.response.statusCode \in {200, 400, 403, 405, 429, 500}

\* a call of send either returns a response and leaves nothing behind that
\* could answer again, or returns nothing yet and waits for the transport;
\* its continuation returns a response and ends the invocation
OneOutcome ==
  /\ step.op = "send"
       => /\ step.out.finished <=> ~inflight[step.slot].busy
          /\ step.out.finished => HasReturned(step.out)
          /\ ~step.out.finished => step.out.response = NoResponse
  /\ step.op = "resume"
       => /\ HasReturned(step.out)
          /\ ~inflight[step.slot].busy
          /\ step.out.kind \in {"Sent", "TransportFailure", "InternalError"}

\* C11: every invocation of send produces exactly one outcome: it returns
\* one response and never a second one, and an invocation that waits for
\* the mail transport returns its response once the transport call has
\* returned or failed.
C11_ExactlyOneOutcome ==
  /\ []OneOutcome
  /\ \A s \in Slots :
       inflight[s].busy
         ~> (step.op = "resume" /\ step.slot = s /\ HasReturned(step.out))

\* an invocation returns its failure while another one still waits
C11_Witness ==
  /\ step.op = "resume"
  /\ HasReturned(step.out)
  /\ step.out.kind = "TransportFailure"
  /\ \E s \in Slots : inflight[s].busy

----------------------------------------------------------------------------
(* validateContactForm                                                     *)

\* the reasons a field of a payload must be rejected for, read off the way
\* the payload was built
EmailReasons(o) ==
  IF o.given = "absent" THEN <<"Email is required">>
  ELSE IF o.given = "number" THEN <<"Expected string, received number">>
  ELSE IF ~o.wellFormed THEN <<"Please provide a valid email address">>
  ELSE <<>>

NameReasons(o) ==
  IF o.given = "absent" THEN <<"Name is required">>
  ELSE IF o.given = "number" THEN <<"Expected string, received number">>
  ELSE (IF Len(o.core) < 2
        THEN <<"Name must be at least 2 characters long">> ELSE <<>>)
       \o (IF Len(o.core) > 100
           THEN <<"Name cannot exceed 100 characters">> ELSE <<>>)
       \o (IF ~o.wellFormed
           THEN <<"Name can only contain letters, spaces, hyphens, apostrophes, and periods">>
           ELSE <<>>)

ContentReasons(o) ==
  IF o.given = "absent" THEN <<"Message content is required">>
  ELSE IF o.given = "number" THEN <<"Expected string, received number">>
  ELSE (IF Len(o.core) < 10
        THEN <<"Message must be at least 10 characters long">> ELSE <<>>)
       \o (IF Len(o.core) > 5000
           THEN <<"Message cannot exceed 5000 characters">> ELSE <<>>)

SubjectReasons(o) ==
  IF o.given = "absent" THEN <<>>
  ELSE IF o.given = "number" THEN <<"Expected string, received number">>
  ELSE IF Len(o.core) > 200 THEN <<"Subject cannot exceed 200 characters">>
  ELSE <<>>

IsValidateCall ==
  step.op = "validateContactForm"

\* C12 as claimed: when validateContactForm rejects a payload, the reasons
\* of its combined message come in the order name, email, content, subject.
C12_ReasonsNameFirst ==
  (IsValidateCall /\ ~step.result.success)
    => step.result.error =
         JoinMessages(NameReasons(step.input.name) \o EmailReasons(step.input.email)
                        \o ContentReasons(step.input.content)
                        \o SubjectReasons(step.input.subject))

\* C12 as amended: when validateContactForm rejects a payload, the reasons
\* of its combined comma-joined message come in the order in which the
\* schema declares the fields, email, name, content, subject, and the message
\* is determined by the payload.
C12_ReasonsInSchemaOrder ==
  (IsValidateCall /\ ~step.result.success)
    => step.result.error =
         JoinMessages(EmailReasons(step.input.email) \o NameReasons(step.input.name)
                        \o ContentReasons(step.input.content)
                        \o SubjectReasons(step.input.subject))

\* a payload that breaks a rule in each of its four fields is rejected
C12_Witness ==
  /\ IsValidateCall
  /\ ~step.result.success
  /\ EmailReasons(step.input.email) # <<>>
  /\ NameReasons(step.input.name) # <<>>
  /\ ContentReasons(step.input.content) # <<>>
  /\ SubjectReasons(step.input.subject) # <<>>

\* the reasons that tell that the value of a required field is badly formed
FormatReasons ==
  [email   |-> {"Please provide a valid email address"},
   name    |-> {"Name must be at least 2 characters long",
                "Name cannot exceed 100 characters",
                "Name can only contain letters, spaces, hyphens, apostrophes, and periods"},
   content |-> {"Message must be at least 10 characters long",
                "Message cannot exceed 5000 characters"}]

RequiredReason ==
  [email   |-> "Email is required",
   name    |-> "Name is required",
   content |-> "Message content is required"]

AllReasons(p) ==
  Range(EmailReasons(p.email)) \cup Range(NameReasons(p.name))
    \cup Range(ContentReasons(p.content)) \cup Range(SubjectReasons(p.subject))

\* C13: validateContactForm does not stop at the first failure: a payload is
\* rejected exactly when it breaks some rule, the message is the comma-joined
\* list of the reasons raised, that list holds the reason of every rule the
\* payload breaks, and a missing required field is reported by its own
\* '... is required' reason and by no format reason or generic failure.
C13_EveryReasonReported ==
  IsValidateCall
    => /\ step.result.success <=> AllReasons(step.input) = {}
       /\ ~step.result.success
            => /\ step.result.error = JoinMessages(step.issues)
               /\ step.result.error # "Invalid request data"
               /\ AllReasons(step.input) \subseteq Range(step.issues)
               /\ \A k \in {"email", "name", "content"} :
                    step.input[k].given = "absent"
                      => /\ RequiredReason[k] \in Range(step.issues)
                         /\ FormatReasons[k] \cap Range(step.issues) = {}

\* the payload of the documented test: only the email is given
C13_Witness ==
  /\ IsValidateCall
  /\ step.input.email.given = "string" /\ step.input.email.wellFormed
  /\ step.input.name.given = "absent"
  /\ step.input.content.given = "absent"
  /\ step.input.subject.given = "absent"
  /\ step.result.error = "Name is required, Message content is required"

\* the three required fields of the payload are valid
RequiredFieldsValid(p) ==
  /\ EmailReasons(p.email) = <<>>
  /\ NameReasons(p.name) = <<>>
  /\ ContentReasons(p.content) = <<>>

\* C14: a payload with valid name, email and content and no subject is
\* accepted and the accepted record has no subject; the subject 'New Contact
\* Form Submission' appears only when the mail is built from the record.
C14_SubjectNotDefaulted ==
  (IsValidateCall /\ RequiredFieldsValid(step.input)
     /\ step.input.subject.given = "absent")
    => /\ step.result.success
       /\ "subject" \notin DOMAIN step.result.data
       /\ DOMAIN step.result.data = {"email", "name", "content"}
       /\ MailSubject(step.result.data) = DefaultSubject

C14_Witness ==
  /\ IsValidateCall
  /\ RequiredFieldsValid(step.input)
  /\ step.input.subject.given = "absent"
  /\ step.input.content.left # <<>>
  /\ step.result.success
  /\ "subject" \notin DOMAIN step.result.data

\* the schema raised no reason of the field
FieldPasses(k) ==
  Range(step.issues)
    \cap (Range(EmailReasons(AbsentField)) \cup Range(NameReasons(AbsentField))
            \cup Range(ContentReasons(AbsentField))
            \cup FormatReasons.email \cup FormatReasons.name \cup FormatReasons.content
            \cup {"Subject cannot exceed 200 characters"})
    \cap (IF k = "subject" THEN {"Subject cannot exceed 200 characters"}
          ELSE FormatReasons[k] \cup {RequiredReason[k]})
    = {}

\* C15: the length and pattern rules apply to the trimmed value of a string
\* field and the trimmed values are returned: name passes iff its trimmed
\* length is between 2 and 100 and it has the allowed form, content passes
\* iff its trimmed length is between 10 and 5000 inclusive, a subject passes
\* iff its trimmed length is at most 200, and the accepted record holds the
\* trimmed texts.
C15_RulesOnTrimmedValues ==
  IsValidateCall
    => /\ step.input.name.given = "string"
            => (FieldPasses("name")
                  <=> /\ Len(step.input.name.core) >= 2
                      /\ Len(step.input.name.core) <= 100
                      /\ step.input.name.wellFormed)
       /\ step.input.content.given = "string"
            => (FieldPasses("content")
                  <=> /\ Len(step.input.content.core) >= 10
                      /\ Len(step.input.content.core) <= 5000)
       /\ step.input.subject.given = "string"
            => (FieldPasses("subject") <=> Len(step.input.subject.core) <= 200)
       /\ step.input.email.given = "string"
            => (FieldPasses("email") <=> step.input.email.wellFormed)
       /\ step.result.success
            => \A k \in DOMAIN step.result.data :
                 step.result.data[k] = step.input[k].core

\* a content of 5000 characters inside white space is accepted and returned
\* without the white space
C15_Witness ==
  /\ IsValidateCall
  /\ step.result.success
  /\ step.input.content.left # <<>>
  /\ Len(step.input.content.core) = 5000
  /\ Len(step.result.data["content"]) = 5000
  /\ step.input.name.left # <<>>
  /\ Len(step.result.data["name"]) = 100

----------------------------------------------------------------------------
(* validateOrigin and sanitizeInput                                        *)

IsOriginCall ==
  step.op = "validateOrigin"

\* no origin is given: the argument is undefined or the empty text
OriginAbsent(o) ==
  ~o.defined \/ o.value = <<>>

\* t equals suffix or ends with it
HasSuffix(t, suffix) ==
  \E n \in 0..Len(t) : SubSeq(t, n + 1, Len(t)) = suffix

IsSubdomainPolicy(d) ==
  Len(d) >= 2 /\ d[1] = "*" /\ d[2] = "."

\* C16: validateOrigin(origin, policy) is true exactly when the policy is
\* '*', or no origin is given, or the policy begins with '*.' and the origin
\* equals or ends with the text after the '*.', or the origin equals the
\* policy; in every other case it is false.
C16_OriginDecision ==
  IsOriginCall
    => (step.result
          <=> \/ step.allowedDomain = <<"*">>
              \/ OriginAbsent(step.origin)
              \/ /\ IsSubdomainPolicy(step.allowedDomain)
                 /\ HasSuffix(step.origin.value,
                              SubSeq(step.allowedDomain, 3, Len(step.allowedDomain)))
              \/ step.origin.value = step.allowedDomain)

\* an origin on a subdomain is accepted by the policy '*.a.io'
C16_Witness ==
  /\ IsOriginCall
  /\ step.allowedDomain = <<"*", ".", "a", ".", "i", "o">>
  /\ step.origin.defined
  /\ step.origin.value = <<"h", "t", "t", "p", "s", ":", "/", "/", "x", ".", "a", ".", "i", "o">>
  /\ step.result

IsSanitizeCall ==
  step.op = "sanitizeInput"

\* the five entities and the characters they stand for
Entities ==
  { [char |-> "<",  text |-> <<"&", "l", "t", ";">>],
    [char |-> ">",  text |-> <<"&", "g", "t", ";">>],
    [char |-> "&",  text |-> <<"&", "a", "m", "p", ";">>],
    [char |-> "\"", text |-> <<"&", "q", "u", "o", "t", ";">>],
    [char |-> "'",  text |-> <<"&", "#", "3", "9", ";">>] }

EntityAt(t, i) ==
  {e \in Entities : i + Len(e.text) - 1 <= Len(t)
                      /\ SubSeq(t, i, i + Len(e.text) - 1) = e.text}

\* the text an HTML reader shows for t: the entities read from left to right
RECURSIVE Decode(_)
Decode(t) ==
  IF t = <<>> THEN <<>>
  ELSE IF EntityAt(t, 1) # {}
       THEN LET e == CHOOSE x \in EntityAt(t, 1) : TRUE
            IN  <<e.char>> \o Decode(SubSeq(t, Len(e.text) + 1, Len(t)))
       ELSE <<Head(t)>> \o Decode(Tail(t))

\* c is t without the white space at its start and at its end
IsTrimOf(c, t) ==
  \E i \in 1..(Len(t) + 1), j \in 0..Len(t) :
    /\ i <= j + 1
    /\ c = SubSeq(t, i, j)
    /\ \A k \in 1..(i - 1) : t[k] \in WhiteSpace
    /\ \A k \in (j + 1)..Len(t) : t[k] \in WhiteSpace
    /\ i <= j => (t[i] \notin WhiteSpace /\ t[j] \notin WhiteSpace)

\* C18: the text sanitizeInput returns has no raw < > " or ', every & in it
\* begins one of the five entities, and read as HTML it is the input without
\* its leading and trailing white space: every one of the five characters was
\* replaced by its entity and every other character was kept.
C18_SanitizeEscapesAndTrims ==
  IsSanitizeCall
    => /\ \A i \in 1..Len(step.result) : step.result[i] \notin {"<", ">", "\"", "'"}
       /\ \A i \in 1..Len(step.result) :
            step.result[i] = "&" => EntityAt(step.result, i) # {}
       /\ IsTrimOf(Decode(step.result), step.input)

\* a text with markup, quotes and an ampersand inside white space
C18_Witness ==
  /\ IsSanitizeCall
  /\ step.input = <<"\t", "<", "b", ">", "\"", "x", "\"", " ", "&", " ", "y",
                    "<", "/", "b", ">", "\n">>
  /\ Len(step.result) = 40

\* the text holds none of the five characters sanitizeInput replaces
IsCleanText(t) ==
  \A i \in 1..Len(t) : t[i] \notin {"<", ">", "&", "\"", "'"}

\* C19 as claimed: applying sanitizeInput twice gives the same text as
\* applying it once, for every text.
C19_SanitizeIdempotent ==
  IsSanitizeCall => step.again = step.result

\* C19 as amended: for every text that holds none of the five characters
\* < > & " ', applying sanitizeInput twice gives the same text as applying
\* it once.
C19_SanitizeIdempotentOnClean ==
  (IsSanitizeCall /\ IsCleanText(step.input)) => step.again = step.result

\* a clean text inside white space: the second application changes nothing
C19_Witness ==
  /\ IsSanitizeCall
  /\ IsCleanText(step.input)
  /\ Len(step.input) = 15
  /\ Len(step.result) = 11
  /\ step.again = step.result

----------------------------------------------------------------------------
(* the origin header and the mail of send                                  *)

\* the ways the key of the origin header is written
OriginKeys ==
  {"origin", "Origin", "ORIGIN"}

\* the request carries, under some casing of the key, an origin the
\* configured policy does not allow
CarriesForbiddenOrigin ==
  \E k \in DOMAIN step.event.headers \cap OriginKeys :
    ~validateOrigin(TRUE, step.event.headers[k], getEnvVars(environment).Domain)

\* C17: a POST that passes the rate limit and carries, under any casing of
\* the key ('origin', 'Origin', 'ORIGIN'), an origin the configured policy
\* does not allow is rejected as ForbiddenOrigin with status 403.
C17_OriginKeyAnyCase ==
  (IsSubmission /\ WithinQuota /\ step.fault = NoFault /\ CarriesForbiddenOrigin)
    => /\ step.out.kind = "ForbiddenOrigin"
       /\ step.out.response.statusCode = 403

\* the record validateContactForm accepted for the request of the step
ValidatedRequest ==
  validateContactForm(step.event.body.value).data

\* the call of send handed a message to the transport
MailHandedOver ==
  step.op = "send" /\ step.out.sesCalls = 1

\* C20: in the message handed to the mail transport, name and content are
\* the validated values passed through sanitizeInput once, the subject is
\* the validated subject passed through sanitizeInput once when there is
\* one, and the submitter's email, also the reply-to address, is the
\* validated email unchanged.
C20_MailFieldsSanitizedOnce ==
  MailHandedOver
    => LET v == ValidatedRequest
           m == step.out.emailParams
       IN  /\ m.Text.name = sanitizeInput(v["name"])
           /\ m.Html.name = sanitizeInput(v["name"])
           /\ m.Text.content = sanitizeInput(v["content"])
           /\ m.Html.content = NewlinesToBr(sanitizeInput(v["content"]))
           /\ ("subject" \in DOMAIN v /\ v["subject"] # <<>>)
                => /\ m.Subject = sanitizeInput(v["subject"])
                   /\ m.Text.subject = m.Subject
                   /\ m.Html.subject = m.Subject
           /\ "subject" \notin DOMAIN v => m.Subject = DefaultSubject
           /\ m.Text.email = v["email"]
           /\ m.Html.email = v["email"]
           /\ m.ReplyToAddresses = <<v["email"]>>

\* the submission with a subject: the mail holds R&amp;D &lt;you&gt; as its
\* subject and the address with its apostrophe
C20_Witness ==
  /\ MailHandedOver
  /\ step.event.body.value = SubjectForm
  /\ step.out.emailParams.Subject
       = <<"R", "&", "a", "m", "p", ";", "D", " ", "&", "l", "t", ";",
           "y", "o", "u", "&", "g", "t", ";">>
  /\ step.out.emailParams.ReplyToAddresses = <<<<"o", "'", "n", "@", "b", ".", "i", "o">>>>
  /\ step.out.emailParams.Text.name = <<"O", "&", "#", "3", "9", ";", "N", "e", "i", "l">>

----------------------------------------------------------------------------
(* detectSuspiciousActivity                                                *)

IsDetectCall ==
  step.op = "detectSuspiciousActivity"

----------------------------------------------------------------------------
(* the headers of the responses                                            *)

\* the origin policy the process is configured with
ConfiguredPolicy ==
  IF "DOMAIN" \in DOMAIN environment THEN environment["DOMAIN"] ELSE <<"*">>

\* the step is a return of send with a response
IsResponse ==
  step.op \in {"send", "resume"} /\ step.out.finished

\* C22: every response of the handler, whatever its status, carries
\* Access-Control-Allow-Origin equal to the configured origin policy ('*'
\* when none is configured), Access-Control-Allow-Methods 'POST,OPTIONS' and
\* Access-Control-Allow-Credentials 'true'.
C22_CorsHeadersOnEveryResponse ==
  IsResponse
    => /\ step.out.response.statusCode \in {200, 400, 403, 405, 429, 500}
       /\ step.out.response.headers["Access-Control-Allow-Origin"] = ConfiguredPolicy
       /\ step.out.response.headers["Access-Control-Allow-Methods"] = <<"POST,OPTIONS">>
       /\ step.out.response.headers["Access-Control-Allow-Credentials"] = <<"true">>

\* a 403 of a process configured with an origin of its own
C22_Witness ==
  /\ IsResponse
  /\ step.out.response.statusCode = 403
  /\ ConfiguredPolicy = AllowedOrigin
  /\ step.out.response.headers["Access-Control-Allow-Origin"] = AllowedOrigin

----------------------------------------------------------------------------
(* C23: requests without a client address share the identity 'unknown'     *)

\* a call of the limiter with an event that carries no client address
IsCallWithoutAddress ==
  step.op = "checkRateLimit" /\ step.sourceIp = ""

\* C23: every call made without a client address is counted under the one
\* identity 'unknown': with maxRequests at least 1 it is allowed exactly
\* while fewer than maxRequests calls of that identity came before it in the
\* window, and it is turned away only when the entry of 'unknown' has
\* reached maxRequests inside its running window, never for the missing
\* address alone
C23_MissingAddressSharesOneIdentity ==
  IsCallWithoutAddress =>
    /\ step.call.ip = "unknown"
    /\ "unknown" \in DOMAIN requestCounts
    /\ "" \notin DOMAIN requestCounts
    /\ step.call.config.maxRequests >= 1 =>
         (step.call.allowed <=> step.call.callsBefore < step.call.config.maxRequests)
    /\ ~step.call.allowed =>
         /\ step.before.known
         /\ step.before.count >= step.call.config.maxRequests
         /\ now - step.before.windowStart <= step.call.config.windowMs
    /\ ~step.before.known => step.call.allowed /\ requestCounts["unknown"].count = 1

\* the first call without an address is allowed while another identity is
\* already at its limit, and a later one is turned away at the limit
C23_Witness ==
  /\ step.op = "checkRateLimit"
  /\ step.sourceIp = ""
  /\ step.call.allowed
  /\ ~step.before.known
  /\ step.call.config.maxRequests = 2
  /\ "192.168.1.100" \in DOMAIN requestCounts
  /\ requestCounts["192.168.1.100"].count = 2

----------------------------------------------------------------------------
(* C24: what a sweep removes                                               *)

\* C24: a sweep with the duration w removes exactly the entries whose window
\* started more than 2 * w before the present and leaves the other entries as
\* they were; no other step removes an entry
C24_SweepRemovesOnlyStale ==
  [][ /\ step'.op = "cleanupRateLimit" =>
           /\ DOMAIN requestCounts' =
                {k \in DOMAIN requestCounts :
                   now - requestCounts[k].windowStart <= 2 * step'.windowMs}
           /\ \A k \in DOMAIN requestCounts' : requestCounts'[k] = requestCounts[k]
      /\ step'.op # "cleanupRateLimit" =>
           DOMAIN requestCounts \subseteq DOMAIN requestCounts'
    ]_vars

\* a sweep removed the entry of one identity and kept that of another whose
\* window started exactly 2 * w ago
C24_Witness ==
  /\ step.op = "cleanupRateLimit"
  /\ step.removed = {"unknown"}
  /\ "192.168.1.100" \in DOMAIN requestCounts
  /\ now - requestCounts["192.168.1.100"].windowStart = 2 * step.windowMs

----------------------------------------------------------------------------
(* C25: a call touches the entry of its own identity only                  *)

\* C25: a call of the limiter for an identity leaves the entry of every other
\* identity as it was and adds no entry but its own, and a call that is
\* turned away leaves the whole table as it was
C25_CallTouchesOwnEntryOnly ==
  [][ (\/ step'.op = "checkRateLimit"
       \/ step'.op = "send" /\ step'.out.rateLimit # "skipped") =>
        /\ \A k \in DOMAIN requestCounts \ {step'.call.ip} :
             k \in DOMAIN requestCounts' /\ requestCounts'[k] = requestCounts[k]
        /\ DOMAIN requestCounts' \subseteq DOMAIN requestCounts \cup {step'.call.ip}
        /\ ~step'.call.allowed => requestCounts' = requestCounts
    ]_vars

\* a call was turned away while another identity has an entry; count and
\* window start of the caller are those from before the call
C25_Witness ==
  /\ IsLimiterCall
  /\ ~step.call.allowed
  /\ Cardinality(DOMAIN requestCounts) = 2
  /\ step.before.known
  /\ requestCounts[step.call.ip].count = step.before.count
  /\ requestCounts[step.call.ip].windowStart = step.before.windowStart
  /\ now > step.before.windowStart

----------------------------------------------------------------------------
(* C26: every allowed submission uses up quota                             *)

\* the calls counted for the identity of the step before the step
UsedBefore ==
  IF step.before.known THEN step.before.count ELSE 0

\* C26: within a window, a POST of an identity with fewer than 5 counted
\* requests is allowed and counted, whatever the pipeline then answers (403,
\* 400, 500 or the hand-over to the transport), and a POST of an identity
\* with 5 counted requests is answered 429 and not counted, valid or not
C26_AllowedPostConsumesQuota ==
  IsSubmission =>
    IF UsedBefore < 5
    THEN /\ step.out.rateLimit = "allowed"
         /\ step.out.kind # "RateLimited"
         /\ step.call.ip \in DOMAIN requestCounts
         /\ requestCounts[step.call.ip].count = UsedBefore + 1
    ELSE /\ step.out.kind = "RateLimited"
         /\ step.out.response.statusCode = 429
         /\ step.out.sesCalls = 0
         /\ requestCounts[step.call.ip].count = UsedBefore

\* without a sender address no submission succeeds; the sixth one, valid and
\* of an accepted origin, is answered 429 after five that failed
C26_Witness ==
  /\ IsSubmission
  /\ ~SenderConfigured
  /\ UsedBefore = 5
  /\ OriginAccepted
  /\ BodyAccepted
  /\ ~ContentFlagged
  /\ step.fault = NoFault
  /\ step.out.response.statusCode = 429

----------------------------------------------------------------------------
(* C27: sweeps with the window duration of the checks are not observable   *)

Identities ==
  {ClientIP([sourceIp |-> a]) : a \in SourceIps}

\* the times, counted from the sweep, at which a later call is looked at
LaterCalls ==
  {0} \cup ClockSteps \cup {a + b : a \in ClockSteps, b \in ClockSteps}

\* C27: a sweep made with the window duration of the checkRateLimit calls
\* changes the result of no later call: made at any later time for any
\* identity, the call gives the same answer and leaves the same entry for
\* that identity with the sweep as without it
C27_MatchingSweepIsUnobservable ==
  [][ (step'.op = "cleanupRateLimit" /\ step'.windowMs = rlConfig.windowMs) =>
        \A ip \in Identities, d \in LaterCalls :
          LET without == checkRateLimit(requestCounts, ip, now + d, rlConfig)
              with    == checkRateLimit(requestCounts', ip, now + d, rlConfig)
          IN  /\ with.allowed = without.allowed
              /\ with.counts[ip] = without.counts[ip]
    ]_vars

\* a sweep with the duration of the checks removed the entry of an identity
\* that had used up its quota
C27_Witness ==
  /\ step.op = "cleanupRateLimit"
  /\ step.windowMs = rlConfig.windowMs
  /\ step.removed # {}
  /\ rlConfig.maxRequests >= 1

----------------------------------------------------------------------------
(* C28: the allowed calls of an interval of one window duration            *)

\* the log holds the allowed calls and the early removals of the interval
\* that ends now and is one window duration long
AllowedInInterval(ip) ==
  Len(passes[ip].times)

\* C28 as stated: in every interval of the length of the window at most
\* 2 * maxRequests calls of an identity are allowed
C28_AtMostTwoQuotasPerInterval ==
  \A ip \in DOMAIN passes :
    AllowedInInterval(ip) <= 2 * rlConfig.maxRequests

\* C28: in every interval of the length of the window in which no sweep
\* removed the entry of the identity while its window was still running, at
\* most 2 * maxRequests calls of the identity are allowed
C28_AtMostTwoQuotasWithoutEarlySweep ==
  \A ip \in DOMAIN passes :
    passes[ip].cuts = <<>> =>
      AllowedInInterval(ip) <= 2 * rlConfig.maxRequests

\* an interval without an early removal overlaps two windows: it holds the
\* last allowed call of the first window and the full quota of the second,
\* and the next call is turned away
C28_Witness ==
  /\ step.op = "checkRateLimit"
  /\ ~step.call.allowed
  /\ step.call.ip \in DOMAIN passes
  /\ rlConfig.maxRequests = 2
  /\ passes[step.call.ip].cuts = <<>>
  /\ AllowedInInterval(step.call.ip) = 3
  /\ passes[step.call.ip].times[1] < requestCounts[step.call.ip].windowStart
  /\ requestCounts[step.call.ip].windowStart = now

----------------------------------------------------------------------------
(* C29: a subject that is empty after trimming                             *)

BlankSubjectForms ==
  {EmptySubjectForm, BlankSubjectForm}

\* the message send builds for the same submission without a subject
MailWithoutSubject ==
  createEmailParams(SanitizedRequest(validateContactForm(ValidForm).data),
                    getEnvVars(environment).EMAIL).params

\* C29: a submission whose subject is empty or white space only passes the
\* schema; when the other gates let it through it is handed to the
\* transport, and the message is the one of the same submission without a
\* subject, with the default subject 'New Contact Form Submission'
C29_BlankSubjectLikeAbsent ==
  (IsSubmission /\ step.event.body.kind = "json"
                /\ step.event.body.value \in BlankSubjectForms)
    => /\ BodyAccepted
       /\ (WithinQuota /\ OriginAccepted /\ SenderConfigured /\ step.fault = NoFault)
            => MailHandedOver
       /\ MailHandedOver
            => /\ step.out.emailParams.Subject = DefaultSubject
               /\ step.out.emailParams.Text.subject = DefaultSubject
               /\ step.out.emailParams.Html.subject = DefaultSubject
               /\ step.out.emailParams = MailWithoutSubject

\* the submission with the subject of blanks and a tab is handed over with
\* the default subject
C29_Witness ==
  /\ MailHandedOver
  /\ step.event.body.value = BlankSubjectForm
  /\ step.out.emailParams.Subject = DefaultSubject

----------------------------------------------------------------------------
(* C30: no raw markup of the visitor in the message                        *)

RawCharacters ==
  {"<", ">", "\"", "'"}

HasRawCharacter(t) ==
  \E i \in 1..Len(t) : t[i] \in RawCharacters

\* the validated submission has a subject that matches a signature
SubjectFlagged ==
  /\ "subject" \in DOMAIN ValidatedRequest
  /\ detectSuspiciousActivity(ValidatedRequest["subject"])

============================================================================
